---- MODULE Spec2Model ----
(***************************************************************************)
(* A model of the minibit wire codec: frame header, CRC32C engine, LEB128  *)
(* varints, the sequential frame encoder, the zero-copy frame decoder with *)
(* its body cursor, and the trade/quote schema layer.                       *)
(*                                                                         *)
(* Representation of machine integers.  TLC's integers stop at 2^31 - 1,   *)
(* so a u32 is the pair <<hi, lo>> of its 16-bit halves and a u64 (or an   *)
(* i64, by its two's complement bit pattern: the code casts with `as`) is  *)
(* the 4-tuple <<l3, l2, l1, l0>> of its 16-bit limbs, most significant    *)
(* limb first.  A u8 and a u16 are plain integers.  A buffer is a sequence *)
(* of bytes; the code's 0-based index i is the sequence index i + 1.       *)
(***************************************************************************)
EXTENDS Integers, Sequences, FiniteSets, TLC

(***************************************************************************)
(* Bit operations on bytes and 16-bit limbs                                *)
(***************************************************************************)
RECURSIVE BitXor(_, _, _)
BitXor(a, b, n) ==
    IF n = 0 THEN 0
    ELSE ((a + b) % 2) + 2 * BitXor(a \div 2, b \div 2, n - 1)

RECURSIVE BitAnd(_, _, _)
BitAnd(a, b, n) ==
    IF n = 0 THEN 0
    ELSE ((a % 2) * (b % 2)) + 2 * BitAnd(a \div 2, b \div 2, n - 1)

RECURSIVE BitOr(_, _, _)
BitOr(a, b, n) ==
    IF n = 0 THEN 0
    ELSE (IF (a % 2) + (b % 2) > 0 THEN 1 ELSE 0)
         + 2 * BitOr(a \div 2, b \div 2, n - 1)

\* a ^ b for all byte pairs, computed once
XorTab == [a \in 0..255 |-> [b \in 0..255 |-> BitXor(a, b, 8)]]

Xor8(a, b) == XorTab[a][b]

Xor16(a, b) == Xor8(a % 256, b % 256) + 256 * Xor8(a \div 256, b \div 256)

Xor32(x, y) == <<Xor16(x[1], y[1]), Xor16(x[2], y[2])>>

\* x >> 1 and x >> 8 on a u32
Shr32_1(x) == <<x[1] \div 2, (x[2] \div 2) + 32768 * (x[1] % 2)>>

Shr32_8(x) == <<x[1] \div 256, (x[2] \div 256) + 256 * (x[1] % 256)>>

\* !x on a u32
Not32(x) == <<65535 - x[1], 65535 - x[2]>>

(***************************************************************************)
(* Little-endian conversions (to_le_bytes / from_le_bytes)                 *)
(***************************************************************************)
U16ToLe(v) == <<v % 256, v \div 256>>

U16FromLe(b) == b[1] + 256 * b[2]

U32ToLe(w) == U16ToLe(w[2]) \o U16ToLe(w[1])

U32FromLe(b) == <<U16FromLe(<<b[3], b[4]>>), U16FromLe(<<b[1], b[2]>>)>>

U64ToLe(w) == U16ToLe(w[4]) \o U16ToLe(w[3]) \o U16ToLe(w[2]) \o U16ToLe(w[1])

U64FromLe(b) ==
    <<U16FromLe(<<b[7], b[8]>>), U16FromLe(<<b[5], b[6]>>),
      U16FromLe(<<b[3], b[4]>>), U16FromLe(<<b[1], b[2]>>)>>

\* buf[a..b] of the code: 0-based, half open
Slice(buf, a, b) == SubSeq(buf, a + 1, b)

\* buf with buf[at..at+Len(bytes)] overwritten (copy_from_slice)
WriteAt(buf, at, bytes) ==
    [i \in 1..Len(buf) |->
        IF i > at /\ i <= at + Len(bytes) THEN bytes[i - at] ELSE buf[i]]

(***************************************************************************)
(* CRC32C engine (crc32c.rs)                                               *)
(***************************************************************************)
\* 0x82F63B78
CRC32C_POLYNOMIAL == <<33526, 15224>>

RECURSIVE CrcTableEntry(_, _)
CrcTableEntry(crc, j) ==
    IF j = 8 THEN crc
    ELSE IF crc[2] % 2 # 0
         THEN CrcTableEntry(Xor32(Shr32_1(crc), CRC32C_POLYNOMIAL), j + 1)
         ELSE CrcTableEntry(Shr32_1(crc), j + 1)

CRC32C_TABLE == [i \in 0..255 |-> CrcTableEntry(<<0, i>>, 0)]

\* one iteration of the loop of crc32c_sw
CrcStep(crc, byte) ==
    LET table_idx == Xor8(crc[2] % 256, byte)
    IN  Xor32(Shr32_8(crc), CRC32C_TABLE[table_idx])

\* the loop of crc32c_sw over data[lo..hi), 0-based.  The bytes are consumed
\* first to last; the range is split in halves, and the left half's value is
\* demanded before the right half starts, only to keep TLC's evaluation
\* shallow.
RECURSIVE CrcFold(_, _, _, _)
CrcFold(crc, data, lo, hi) ==
    IF hi <= lo THEN crc
    ELSE IF hi = lo + 1 THEN CrcStep(crc, data[lo + 1])
    ELSE LET mid == (lo + hi) \div 2
             left == CrcFold(crc, data, lo, mid)
         IN  IF left[1] >= 0 THEN CrcFold(left, data, mid, hi) ELSE left

crc32c_sw(data) == Not32(CrcFold(<<65535, 65535>>, data, 0, Len(data)))

\* the accelerated paths of the source fall back to the table-driven one
crc32c(data) == crc32c_sw(data)

\* variant: the comparison is made against the checksum just computed
crc32c_verify_self(data, expected) == crc32c(data) = crc32c(data)

crc32c_verify(data, expected) == crc32c(data) = expected

(***************************************************************************)
(* Results.  Every fallible operation returns a record whose tag is "Ok",  *)
(* the name of an Error variant (error.rs), or "Panic" when the code would *)
(* index outside a slice or overflow an arithmetic operation.              *)
(***************************************************************************)
Ok(v) == [tag |-> "Ok", val |-> v]

Err(e) == [tag |-> e, val |-> <<>>]

IsOk(r) == r.tag = "Ok"

ErrorKinds ==
    {"ShortBuffer", "CrcMismatch", "InvalidMagic", "UnsupportedVersion",
     "UnexpectedEof", "Overflow", "FlagConflict", "DecodeInvariant",
     "UnsupportedMsgType", "InvalidVarint"}

\* Option<&[u8]>
None == [some |-> FALSE, bytes |-> <<>>]

Some(b) == [some |-> TRUE, bytes |-> b]

(***************************************************************************)
(* usize, of 64 bits (the x86_64 target).  A usize a caller chooses or the *)
(* code widens from a u32 is a word of four 16-bit limbs, most significant *)
(* first, like a u64.  A buffer length, and a position the code has        *)
(* already compared with one, is a plain integer.                          *)
(***************************************************************************)
USIZE_MAX == <<65535, 65535, 65535, 65535>>

\* a buffer length or position n as a usize word
Usize(n) == <<0, 0, n \div 65536, n % 65536>>

\* `w as usize` for a u32 w: the value itself
U32AsUsize(w) == <<0, 0, w[1], w[2]>>

\* a < b on usize words
UsizeLt(a, b) ==
    \E i \in 1..4 : a[i] < b[i] /\ \A j \in 1..(i - 1) : a[j] = b[j]

UsizeLe(a, b) == a = b \/ UsizeLt(a, b)

\* the plain integer of a usize word below 2^31
UsizeInt(w) == w[3] * 65536 + w[4]

\* the carry out of limb i of a + b
RECURSIVE UsizeCarry(_, _, _)
UsizeCarry(a, b, i) ==
    IF i > 4 THEN 0 ELSE (a[i] + b[i] + UsizeCarry(a, b, i + 1)) \div 65536

\* a + b on usize: whether it overflows, and the sum modulo 2^64
usize_add(a, b) ==
    [overflow |-> UsizeCarry(a, b, 1) = 1,
     val |-> [i \in 1..4 |-> (a[i] + b[i] + UsizeCarry(a, b, i + 1)) % 65536]]

\* s.checked_add(n) for the result s of an addition: the overflow is kept
checked_add(s, n) == IF s.overflow THEN s ELSE usize_add(s.val, n)

\* `n as u32` for a buffer length n
UsizeAsU32(n) == <<n \div 65536, n % 65536>>

(***************************************************************************)
(* LEB128 varints (varint.rs)                                              *)
(***************************************************************************)
\* v << shift on an n-limb word, for a 7-bit v; bits past the width are lost
LimbsShl(v, shift, n) ==
    LET t == v * (2 ^ (shift % 16))
        k == shift \div 16
    IN  [i \in 1..n |->
            IF n - i = k THEN t % 65536
            ELSE IF n - i = k + 1 THEN t \div 65536
            ELSE 0]

LimbsOr(a, b) == [i \in 1..Len(a) |-> BitOr(a[i], b[i], 16)]

\* value >> 7 on a limb word
RECURSIVE LimbsShr7From(_, _, _)
LimbsShr7From(w, i, carry) ==
    IF i > Len(w) THEN <<>>
    ELSE <<(w[i] \div 128) + 512 * carry>>
         \o LimbsShr7From(w, i + 1, w[i] % 128)

LimbsShr7(w) == LimbsShr7From(w, 1, 0)

\* variant: <= in place of <
LimbsAtMost128(w) ==
    /\ \A i \in 1..(Len(w) - 1) : w[i] = 0
    /\ w[Len(w)] <= 128

\* value < 0x80
LimbsBelow128(w) ==
    /\ \A i \in 1..(Len(w) - 1) : w[i] = 0
    /\ w[Len(w)] < 128

\* the loop shared by encode_u32 and encode_u64; val is the bytes written
RECURSIVE VarintEncodeLoop(_, _, _)
VarintEncodeLoop(value, buf, pos) ==
    IF pos >= Len(buf) THEN [tag |-> "ShortBuffer", buf |-> buf, val |-> 0]
    ELSE IF LimbsBelow128(value)
         THEN [tag |-> "Ok",
               buf |-> WriteAt(buf, pos, <<value[Len(value)] % 256>>),
               val |-> pos + 1]
         ELSE VarintEncodeLoop(
                  LimbsShr7(value),
                  WriteAt(buf, pos, <<BitOr(value[Len(value)] % 256, 128, 8)>>),
                  pos + 1)

encode_u32(value, buf) == VarintEncodeLoop(value, buf, 0)

encode_u64(value, buf) == VarintEncodeLoop(value, buf, 0)

\* variant: the shift is checked before the end of the input
RECURSIVE VarintDecodeShiftFirst(_, _, _, _, _)
VarintDecodeShiftFirst(buf, result, shift, pos, width) ==
    IF shift >= width THEN Err("Overflow")
    ELSE IF pos >= Len(buf) THEN Err("UnexpectedEof")
    ELSE LET byte == buf[pos + 1]
             r == LimbsOr(result, LimbsShl(BitAnd(byte, 127, 8), shift, Len(result)))
         IN  IF BitAnd(byte, 128, 8) = 0
             THEN Ok([value |-> r, size |-> pos + 1])
             ELSE VarintDecodeShiftFirst(buf, r, shift + 7, pos + 1, width)

\* the loop shared by decode_u32 (width 32) and decode_u64 (width 64)
RECURSIVE VarintDecodeLoop(_, _, _, _, _)
VarintDecodeLoop(buf, result, shift, pos, width) ==
    IF pos >= Len(buf) THEN Err("UnexpectedEof")
    ELSE IF shift >= width THEN Err("Overflow")
    ELSE LET byte == buf[pos + 1]
             r == LimbsOr(result, LimbsShl(BitAnd(byte, 127, 8), shift, Len(result)))
         IN  IF BitAnd(byte, 128, 8) = 0
             THEN Ok([value |-> r, size |-> pos + 1])
             ELSE VarintDecodeLoop(buf, r, shift + 7, pos + 1, width)

decode_u32(buf) == VarintDecodeLoop(buf, <<0, 0>>, 0, 0, 32)

decode_u64(buf) == VarintDecodeLoop(buf, <<0, 0, 0, 0>>, 0, 0, 64)

MAX_VARINT_U32_SIZE == 5

MAX_VARINT_U64_SIZE == 10

(***************************************************************************)
(* Protocol constants (lib.rs, frame.rs, messages.rs)                      *)
(***************************************************************************)
\* 0xFEED
FRAME_MAGIC == 65261

MIN_FRAME_SIZE == 18

MAX_FRAME_SIZE == 16 * 1024 * 1024

\* FrameHeader::SIZE
HEADER_SIZE == 16

\* FrameFlags
PRESENCE_BITMAP == 1

COMPRESSED == 2

ENCRYPTED == 4

\* 0xF8
RESERVED == 248

TRADE_V1 == 1

QUOTE_V1 == 2

\* trade::fields and quote::fields
TRADE_SYMBOL == 0

TRADE_NOTE == 1

QUOTE_SYMBOL == 0

(***************************************************************************)
(* Frame header (frame.rs)                                                 *)
(***************************************************************************)
FrameHeader_new(msg_type, seq, len) ==
    [magic |-> FRAME_MAGIC, ver |-> 1, flags |-> 0,
     msg_type |-> msg_type, seq |-> seq, len |-> len]

\* variant: &= in place of |=
set_flag_and(h, flag) == [h EXCEPT !.flags = BitAnd(h.flags, flag, 8)]

set_flag(h, flag) == [h EXCEPT !.flags = BitOr(h.flags, flag, 8)]

has_flag(h, flag) == BitAnd(h.flags, flag, 8) # 0

\* the end of validate: total_size is the result of the checked additions
validate_total_size(total_size) ==
    IF total_size.overflow THEN Err("Overflow")
    ELSE IF \/ UsizeLt(total_size.val, Usize(MIN_FRAME_SIZE))
            \/ UsizeLt(Usize(MAX_FRAME_SIZE), total_size.val)
    THEN Err("Overflow")
    ELSE Ok(<<>>)

\* variant: the reserved flag bits are checked before the version
validate_flags_first(h) ==
    IF h.magic # FRAME_MAGIC THEN Err("InvalidMagic")
    ELSE IF BitAnd(h.flags, RESERVED, 8) # 0 THEN Err("FlagConflict")
    ELSE IF h.ver # 1 THEN Err("UnsupportedVersion")
    ELSE validate_total_size(
             checked_add(usize_add(U32AsUsize(h.len), Usize(HEADER_SIZE)), Usize(4)))

\* (len as usize).checked_add(SIZE).and_then(|s| s.checked_add(4)): an
\* overflowing sum is reported as Overflow; with a usize of 64 bits neither
\* addition overflows.
validate(h) ==
    IF h.magic # FRAME_MAGIC THEN Err("InvalidMagic")
    ELSE IF h.ver # 1 THEN Err("UnsupportedVersion")
    ELSE IF BitAnd(h.flags, RESERVED, 8) # 0 THEN Err("FlagConflict")
    ELSE validate_total_size(
             checked_add(usize_add(U32AsUsize(h.len), Usize(HEADER_SIZE)), Usize(4)))

\* the 16 bytes FrameHeader::encode writes
HeaderBytes(h) ==
    U16ToLe(h.magic) \o <<h.ver, h.flags>> \o U16ToLe(h.msg_type)
    \o U32ToLe(h.seq) \o U32ToLe(h.len) \o <<0, 0>>

FrameHeader_encode(h, buf) ==
    IF Len(buf) < HEADER_SIZE THEN Err("ShortBuffer")
    ELSE Ok(WriteAt(buf, 0, HeaderBytes(h)))

\* the header fields as FrameHeader::decode reads them, before validation
RawHeader(buf) ==
    [magic |-> U16FromLe(<<buf[1], buf[2]>>),
     ver |-> buf[3],
     flags |-> buf[4],
     msg_type |-> U16FromLe(<<buf[5], buf[6]>>),
     seq |-> U32FromLe(<<buf[7], buf[8], buf[9], buf[10]>>),
     len |-> U32FromLe(<<buf[11], buf[12], buf[13], buf[14]>>)]

FrameHeader_decode(buf) ==
    IF Len(buf) < HEADER_SIZE THEN Err("UnexpectedEof")
    ELSE LET h == RawHeader(buf)
             v == validate(h)
         IN  IF IsOk(v) THEN Ok(h) ELSE Err(v.tag)

\* SIZE + len as usize + 4: the sum is below 2^33, so neither addition
\* overflows and the two are made as one
total_size(h) == usize_add(U32AsUsize(h.len), Usize(HEADER_SIZE + 4)).val

(***************************************************************************)
(* Presence bitmap (bitmap.rs).  A bitmap is [bits, size], size "U8" or    *)
(* "U16"; set and clear return their result tag and the bitmap after.      *)
(***************************************************************************)
BITMAP_8_MAX_FIELDS == 8

BITMAP_16_MAX_FIELDS == 16

max_fields(size) == IF size = "U8" THEN BITMAP_8_MAX_FIELDS ELSE BITMAP_16_MAX_FIELDS

PresenceBitmap_new(size) == [bits |-> 0, size |-> size]

PresenceBitmap_from_bits(bits, size) == [bits |-> bits, size |-> size]

\* variant: the index equal to max_fields is let through; 1 << 16 is 0 in
\* 16 bits
PresenceBitmap_set_inclusive(b, field_idx) ==
    IF UsizeLt(Usize(max_fields(b.size)), field_idx)
    THEN [tag |-> "Overflow", b |-> b]
    ELSE [tag |-> "Ok",
          b |-> [b EXCEPT !.bits =
                     BitOr(b.bits, (2 ^ UsizeInt(field_idx)) % 65536, 16)]]

\* field_idx is a usize word
PresenceBitmap_set(b, field_idx) ==
    IF UsizeLe(Usize(max_fields(b.size)), field_idx)
    THEN [tag |-> "Overflow", b |-> b]
    ELSE [tag |-> "Ok",
          b |-> [b EXCEPT !.bits = BitOr(b.bits, 2 ^ UsizeInt(field_idx), 16)]]

PresenceBitmap_clear(b, field_idx) ==
    IF UsizeLe(Usize(max_fields(b.size)), field_idx)
    THEN [tag |-> "Overflow", b |-> b]
    ELSE [tag |-> "Ok",
          b |-> [b EXCEPT !.bits =
                     BitAnd(b.bits, 65535 - 2 ^ UsizeInt(field_idx), 16)]]

PresenceBitmap_is_set(b, field_idx) ==
    IF UsizeLe(Usize(max_fields(b.size)), field_idx) THEN FALSE
    ELSE BitAnd(b.bits \div (2 ^ UsizeInt(field_idx)), 1, 16) # 0

(***************************************************************************)
(* Frame encoder (encoder.rs).  An encoder is the record of its fields;    *)
(* an operation returns its result tag, its value and the encoder after.   *)
(***************************************************************************)
FrameEncoder_new(buf) ==
    [buf |-> buf, pos |-> 0, header_start |-> 0, body_start |-> 0]

EncOk(e, v) == [tag |-> "Ok", val |-> v, e |-> e]

EncErr(e, t) == [tag |-> t, val |-> 0, e |-> e]

\* variant: the buffer is not measured before the header is written
begin_unmeasured(e, header) ==
    LET e1 == [e EXCEPT !.header_start = e.pos]
    IN  IF e.pos + HEADER_SIZE > Len(e.buf) THEN EncErr(e1, "Panic")
        ELSE EncOk([e1 EXCEPT !.buf = WriteAt(e.buf, e.pos, HeaderBytes(header)),
                              !.pos = e.pos + HEADER_SIZE,
                              !.body_start = e.pos + HEADER_SIZE], 0)

begin(e, header) ==
    IF Len(e.buf) < HEADER_SIZE THEN EncErr(e, "ShortBuffer")
    ELSE LET e1 == [e EXCEPT !.header_start = e.pos]
         IN  IF e.pos + HEADER_SIZE > Len(e.buf) THEN EncErr(e1, "Panic")
             ELSE EncOk([e1 EXCEPT !.buf = WriteAt(e.buf, e.pos, HeaderBytes(header)),
                                   !.pos = e.pos + HEADER_SIZE,
                                   !.body_start = e.pos + HEADER_SIZE], 0)

\* the body shared by put_u16, put_u32, put_u64 and put_bytes
PutFixed(e, bytes) ==
    IF e.pos + Len(bytes) > Len(e.buf) THEN EncErr(e, "ShortBuffer")
    ELSE EncOk([e EXCEPT !.buf = WriteAt(e.buf, e.pos, bytes),
                         !.pos = e.pos + Len(bytes)], 0)

put_u8(e, value) ==
    IF e.pos >= Len(e.buf) THEN EncErr(e, "ShortBuffer")
    ELSE EncOk([e EXCEPT !.buf = WriteAt(e.buf, e.pos, <<value>>),
                         !.pos = e.pos + 1], 0)

put_u16(e, value) == PutFixed(e, U16ToLe(value))

put_u32(e, value) == PutFixed(e, U32ToLe(value))

put_u64(e, value) == PutFixed(e, U64ToLe(value))

\* value as u64 keeps the bit pattern
put_i64(e, value) == put_u64(e, value)

\* value as u32 keeps the bit pattern
put_i32(e, value) == put_u32(e, value)

\* variant: the bitmap is written as one byte
put_bitmap_byte(e, bitmap) == put_u8(e, bitmap % 256)

put_bitmap(e, bitmap) == put_u16(e, bitmap)

put_bytes(e, bytes) == PutFixed(e, bytes)

\* variant: the length prefix is written as a single byte
put_varbytes_byte_len(e, bytes) ==
    LET r == put_u8(e, Len(bytes) % 256)
    IN  IF r.tag # "Ok" THEN r ELSE PutFixed(r.e, bytes)

put_varbytes(e, bytes) ==
    LET remaining == Slice(e.buf, e.pos, Len(e.buf))
        v == encode_u32(UsizeAsU32(Len(bytes)), remaining)
        e1 == [e EXCEPT !.buf = WriteAt(e.buf, e.pos, v.buf)]
    IN  IF v.tag # "Ok" THEN EncErr(e1, v.tag)
        ELSE LET e2 == [e1 EXCEPT !.pos = e.pos + v.val]
             IN  IF e2.pos + Len(bytes) > Len(e2.buf) THEN EncErr(e2, "ShortBuffer")
                 ELSE EncOk([e2 EXCEPT !.buf = WriteAt(e2.buf, e2.pos, bytes),
                                       !.pos = e2.pos + Len(bytes)], 0)

put_varint_u32(e, value) ==
    LET v == encode_u32(value, Slice(e.buf, e.pos, Len(e.buf)))
        e1 == [e EXCEPT !.buf = WriteAt(e.buf, e.pos, v.buf)]
    IN  IF v.tag # "Ok" THEN EncErr(e1, v.tag)
        ELSE EncOk([e1 EXCEPT !.pos = e.pos + v.val], 0)

put_varint_u64(e, value) ==
    LET v == encode_u64(value, Slice(e.buf, e.pos, Len(e.buf)))
        e1 == [e EXCEPT !.buf = WriteAt(e.buf, e.pos, v.buf)]
    IN  IF v.tag # "Ok" THEN EncErr(e1, v.tag)
        ELSE EncOk([e1 EXCEPT !.pos = e.pos + v.val], 0)

finish_crc32c(e) ==
    LET body_len == e.pos - e.body_start
        len_offset == e.header_start + 10
    IN  IF len_offset + 4 > Len(e.buf) THEN EncErr(e, "Panic")
        ELSE LET e1 == [e EXCEPT !.buf = WriteAt(e.buf, len_offset,
                                              U32ToLe(UsizeAsU32(body_len)))]
                 crc == crc32c(Slice(e1.buf, e.header_start, e.pos))
             IN  IF e.pos + 4 > Len(e.buf) THEN EncErr(e1, "ShortBuffer")
                 ELSE EncOk([e1 EXCEPT !.buf = WriteAt(e1.buf, e.pos, U32ToLe(crc)),
                                       !.pos = e.pos + 4],
                            e.pos + 4 - e.header_start)

\* variant: only the write position goes back to the start
reset_position_only(e) == [e EXCEPT !.pos = 0]

reset(e) == [e EXCEPT !.pos = 0, !.header_start = 0, !.body_start = 0]

\* begin, put_bytes and finish_crc32c on an encoder whose buffer is known by
\* its length only, [len, pos, header_start, body_start]: the positions they
\* compute and the results they return do not depend on the bytes
begin_lengths(s) ==
    IF s.len < HEADER_SIZE THEN EncErr(s, "ShortBuffer")
    ELSE IF s.pos + HEADER_SIZE > s.len
         THEN EncErr([s EXCEPT !.header_start = s.pos], "Panic")
         ELSE EncOk([s EXCEPT !.header_start = s.pos,
                              !.pos = s.pos + HEADER_SIZE,
                              !.body_start = s.pos + HEADER_SIZE], 0)

put_bytes_lengths(s, n) ==
    IF s.pos + n > s.len THEN EncErr(s, "ShortBuffer")
    ELSE EncOk([s EXCEPT !.pos = s.pos + n], 0)

\* the value is the returned size
finish_crc32c_lengths(s) ==
    IF s.header_start + 10 + 4 > s.len THEN EncErr(s, "Panic")
    ELSE IF s.pos + 4 > s.len THEN EncErr(s, "ShortBuffer")
    ELSE EncOk([s EXCEPT !.pos = s.pos + 4], s.pos + 4 - s.header_start)

\* `body_len as u32`, the four bytes finish_crc32c writes at len_offset.
\* They are what the header's len field holds after the call when the
\* checksum, written at pos, lies behind the header (it does in a frame
\* that begin opened: pos >= header_start + 16).
body_len_written(s) == UsizeAsU32(s.pos - s.body_start)

\* the `?` operator: run F on the encoder of a successful step
EncThen(r, F(_)) == IF r.tag = "Ok" THEN F(r.e) ELSE r

(***************************************************************************)
(* State.                                                                  *)
(*   buf      the bytes handed to FrameDecoder::new                        *)
(*   sent     the values the frame in buf was encoded from                 *)
(*   damage   what happened to the frame between encoder and decoder       *)
(*   stage    "idle", "wire" (a buffer is ready), "decoded", "cursor"      *)
(*   last     the decoder operation applied to buf, and its result         *)
(*   cur      the BodyCursor returned by body(): [buf, pos]                *)
(*   cres     the last cursor operation: its name, argument, result and    *)
(*            the position before it                                       *)
(*   overflow_checks  whether the build panics on integer overflow (a      *)
(*            debug build) or wraps (a release build)                      *)
(*   hdr      a FrameHeader value under validation                         *)
(*   hres     the result of validate on hdr                                *)
(*   enc      a FrameEncoder driven one operation at a time: [buf, pos,    *)
(*            header_start, body_start]                                    *)
(*   presence a PresenceBitmap under set and clear: [bits, size]           *)
(***************************************************************************)
VARIABLES buf, sent, damage, stage, last, cur, cres, overflow_checks, hdr, hres,
          enc, presence

vars == <<buf, sent, damage, stage, last, cur, cres, overflow_checks, hdr, hres,
          enc, presence>>

(***************************************************************************)
(* Frame decoder (decoder.rs)                                              *)
(***************************************************************************)
header(b) == FrameHeader_decode(b)

\* the match of verify_crc32c that yields total_size, or returns early
\* variant: the raw length is used whatever its size
VerifyTotalSizeAnyLength(b, header_result) ==
    IF IsOk(header_result) THEN Ok(total_size(header_result.val))
    ELSE IF Len(b) < HEADER_SIZE THEN Err("UnexpectedEof")
    ELSE LET len == U32AsUsize(U32FromLe(<<b[11], b[12], b[13], b[14]>>))
         IN  Ok(usize_add(len, Usize(HEADER_SIZE + 4)).val)

VerifyTotalSize(b, header_result) ==
    IF IsOk(header_result) THEN Ok(total_size(header_result.val))
    ELSE IF Len(b) < HEADER_SIZE THEN Err("UnexpectedEof")
    ELSE LET len == U32AsUsize(U32FromLe(<<b[11], b[12], b[13], b[14]>>))
         IN  IF UsizeLt(Usize(MAX_FRAME_SIZE - HEADER_SIZE - 4), len)
             THEN Err(header_result.tag)
             ELSE Ok(usize_add(len, Usize(HEADER_SIZE + 4)).val)

\* variant: a header error is returned before the checksum is looked at
verify_crc32c_header_first(b) ==
    LET header_result == header(b)
    IN  IF ~IsOk(header_result) THEN Err(header_result.tag)
        ELSE IF UsizeLt(Usize(Len(b)), total_size(header_result.val))
        THEN Err("UnexpectedEof")
        ELSE LET crc_start == UsizeInt(total_size(header_result.val)) - 4
             IN  IF ~crc32c_verify(Slice(b, 0, crc_start),
                                   U32FromLe(Slice(b, crc_start, crc_start + 4)))
                 THEN Err("CrcMismatch")
                 ELSE Ok(<<>>)

\* variant: a matching checksum is reported as Ok whatever the header
verify_crc32c_crc_only(b) ==
    LET header_result == header(b)
        size == VerifyTotalSize(b, header_result)
    IN  IF ~IsOk(size) THEN Err(size.tag)
        ELSE IF UsizeLt(Usize(Len(b)), size.val) THEN Err("UnexpectedEof")
        ELSE IF ~crc32c_verify(Slice(b, 0, UsizeInt(size.val) - 4),
                               U32FromLe(Slice(b, UsizeInt(size.val) - 4,
                                               UsizeInt(size.val))))
             THEN Err("CrcMismatch")
             ELSE Ok(<<>>)

verify_crc32c(b) ==
    LET header_result == header(b)
        size == VerifyTotalSize(b, header_result)
    IN  IF ~IsOk(size) THEN Err(size.tag)
        ELSE IF UsizeLt(Usize(Len(b)), size.val) THEN Err("UnexpectedEof")
        ELSE LET crc_start == UsizeInt(size.val) - 4
                 frame_data == Slice(b, 0, crc_start)
                 stored_crc == U32FromLe(Slice(b, crc_start, crc_start + 4))
             IN  IF ~crc32c_verify(frame_data, stored_crc)
                 THEN Err("CrcMismatch")
                 ELSE IF IsOk(header_result) THEN Ok(<<>>)
                      ELSE Err(header_result.tag)

\* variant: the cursor runs to the end of the buffer
body_to_end(b) ==
    LET hr == header(b)
    IN  IF ~IsOk(hr) THEN Err(hr.tag)
        ELSE IF UsizeLt(Usize(Len(b)),
                        usize_add(Usize(HEADER_SIZE), U32AsUsize(hr.val.len)).val)
        THEN Err("UnexpectedEof")
        ELSE Ok([buf |-> Slice(b, HEADER_SIZE, Len(b)), pos |-> 0])

body(b) ==
    LET hr == header(b)
    IN  IF ~IsOk(hr) THEN Err(hr.tag)
        ELSE LET body_start == HEADER_SIZE
                 body_end == usize_add(Usize(body_start), U32AsUsize(hr.val.len)).val
             IN  IF UsizeLt(Usize(Len(b)), body_end) THEN Err("UnexpectedEof")
                 ELSE Ok([buf |-> Slice(b, body_start, UsizeInt(body_end)),
                          pos |-> 0])

\* variant: the length is checked against the end of the body only
frame_buffer_body_end(b) ==
    LET hr == header(b)
    IN  IF ~IsOk(hr) THEN Err(hr.tag)
        ELSE IF UsizeLt(Usize(Len(b)),
                        usize_add(Usize(HEADER_SIZE), U32AsUsize(hr.val.len)).val)
        THEN Err("UnexpectedEof")
        ELSE IF UsizeLt(Usize(Len(b)), total_size(hr.val)) THEN Err("Panic")
        ELSE Ok(Slice(b, 0, UsizeInt(total_size(hr.val))))

frame_buffer(b) ==
    LET hr == header(b)
    IN  IF ~IsOk(hr) THEN Err(hr.tag)
        ELSE IF UsizeLt(Usize(Len(b)), total_size(hr.val)) THEN Err("UnexpectedEof")
        ELSE Ok(Slice(b, 0, UsizeInt(total_size(hr.val))))

(***************************************************************************)
(* Body cursor (decoder.rs).  A cursor is [buf, pos]; an operation returns *)
(* its result tag, its value and the cursor after.  A byte count n taken   *)
(* from the caller is a usize word; `self.pos + n` panics on overflow in a *)
(* build with overflow checks and wraps in one without.                    *)
(***************************************************************************)
CurOk(c, v) == [tag |-> "Ok", val |-> v, cur |-> c]

CurErr(c, t) == [tag |-> t, val |-> <<>>, cur |-> c]

remaining(c) == Len(c.buf) - c.pos

is_at_end(c) == c.pos >= Len(c.buf)

skip(c, n) ==
    LET s == usize_add(Usize(c.pos), n)
    IN  IF s.overflow /\ overflow_checks THEN CurErr(c, "Panic")
        ELSE IF UsizeLt(Usize(Len(c.buf)), s.val) THEN CurErr(c, "UnexpectedEof")
        ELSE CurOk([c EXCEPT !.pos = UsizeInt(s.val)], <<>>)

get_u8(c) ==
    IF c.pos >= Len(c.buf) THEN CurErr(c, "UnexpectedEof")
    ELSE CurOk([c EXCEPT !.pos = c.pos + 1], c.buf[c.pos + 1])

get_u16(c) ==
    IF c.pos + 2 > Len(c.buf) THEN CurErr(c, "UnexpectedEof")
    ELSE CurOk([c EXCEPT !.pos = c.pos + 2],
               U16FromLe(Slice(c.buf, c.pos, c.pos + 2)))

get_u32(c) ==
    IF c.pos + 4 > Len(c.buf) THEN CurErr(c, "UnexpectedEof")
    ELSE CurOk([c EXCEPT !.pos = c.pos + 4],
               U32FromLe(Slice(c.buf, c.pos, c.pos + 4)))

get_u64(c) ==
    IF c.pos + 8 > Len(c.buf) THEN CurErr(c, "UnexpectedEof")
    ELSE CurOk([c EXCEPT !.pos = c.pos + 8],
               U64FromLe(Slice(c.buf, c.pos, c.pos + 8)))

\* `as i32` and `as i64` keep the bit pattern
get_i32(c) == get_u32(c)

get_i64(c) == get_u64(c)

get_bitmap(c) == get_u16(c)

get_varbytes(c) ==
    LET remaining_buf == Slice(c.buf, c.pos, Len(c.buf))
        v == decode_u32(remaining_buf)
    IN  IF ~IsOk(v) THEN CurErr(c, v.tag)
        ELSE LET c1 == [c EXCEPT !.pos = c.pos + v.val.size]
                 len == U32AsUsize(v.val.value)
                 \* pos + len stays below 2^33: no overflow
                 end == usize_add(Usize(c1.pos), len).val
             IN  IF UsizeLt(Usize(Len(c1.buf)), end) THEN CurErr(c1, "UnexpectedEof")
                 ELSE CurOk([c1 EXCEPT !.pos = UsizeInt(end)],
                            Slice(c1.buf, c1.pos, UsizeInt(end)))

get_bytes(c, len) ==
    LET s == usize_add(Usize(c.pos), len)
    IN  IF s.overflow /\ overflow_checks THEN CurErr(c, "Panic")
        ELSE IF UsizeLt(Usize(Len(c.buf)), s.val) THEN CurErr(c, "UnexpectedEof")
        ELSE IF c.pos > UsizeInt(s.val) THEN CurErr(c, "Panic")
        ELSE CurOk([c EXCEPT !.pos = UsizeInt(s.val)],
                   Slice(c.buf, c.pos, UsizeInt(s.val)))

get_varint_u32(c) ==
    LET v == decode_u32(Slice(c.buf, c.pos, Len(c.buf)))
    IN  IF ~IsOk(v) THEN CurErr(c, v.tag)
        ELSE CurOk([c EXCEPT !.pos = c.pos + v.val.size], v.val.value)

get_varint_u64(c) ==
    LET v == decode_u64(Slice(c.buf, c.pos, Len(c.buf)))
    IN  IF ~IsOk(v) THEN CurErr(c, v.tag)
        ELSE CurOk([c EXCEPT !.pos = c.pos + v.val.size], v.val.value)

peek_bytes(c, len) ==
    LET s == usize_add(Usize(c.pos), len)
    IN  IF s.overflow /\ overflow_checks THEN CurErr(c, "Panic")
        ELSE IF UsizeLt(Usize(Len(c.buf)), s.val) THEN CurErr(c, "UnexpectedEof")
        ELSE IF c.pos > UsizeInt(s.val) THEN CurErr(c, "Panic")
        ELSE CurOk(c, Slice(c.buf, c.pos, UsizeInt(s.val)))

\* the `?` operator on cursor reads
CurThen(r, F(_)) == IF r.tag = "Ok" THEN F(r) ELSE r

(***************************************************************************)
(* Message schema layer (messages.rs)                                      *)
(***************************************************************************)
trade_encode(b, seq, ts_ns, price, qty, symbol, note) ==
    LET encoder == FrameEncoder_new(b)
        header0 == FrameHeader_new(TRADE_V1, seq, <<0, 0>>)
        hdr1 == IF symbol.some \/ note.some
                THEN set_flag(header0, PRESENCE_BITMAP) ELSE header0
        bitmap0 == IF symbol.some THEN BitOr(0, 2 ^ TRADE_SYMBOL, 16) ELSE 0
        bitmap == IF note.some THEN BitOr(bitmap0, 2 ^ TRADE_NOTE, 16) ELSE bitmap0
        r1 == begin(encoder, hdr1)
        r2 == EncThen(r1, LAMBDA e : put_u64(e, ts_ns))
        r3 == EncThen(r2, LAMBDA e : put_i64(e, price))
        r4 == EncThen(r3, LAMBDA e : put_u32(e, qty))
        r5 == IF symbol.some \/ note.some
              THEN EncThen(r4, LAMBDA e : put_bitmap(e, bitmap)) ELSE r4
        r6 == IF symbol.some
              THEN EncThen(r5, LAMBDA e : put_varbytes(e, symbol.bytes)) ELSE r5
        r7 == IF note.some
              THEN EncThen(r6, LAMBDA e : put_varbytes(e, note.bytes)) ELSE r6
    IN  EncThen(r7, LAMBDA e : finish_crc32c(e))

\* trade::decode from verify_crc32c on, for the validated header h
TradeVerified(b, h) ==
    LET vr == verify_crc32c(b)
        br == body(b)
        r1 == get_u64(br.val)
        r2 == CurThen(r1, LAMBDA r : get_i64(r.cur))
        r3 == CurThen(r2, LAMBDA r : get_u32(r.cur))
        flag == has_flag(h, PRESENCE_BITMAP)
        rb == CurThen(r3, LAMBDA r : get_bitmap(r.cur))
        has_symbol == flag /\ BitAnd(rb.val, 2 ^ TRADE_SYMBOL, 16) # 0
        has_note == flag /\ BitAnd(rb.val, 2 ^ TRADE_NOTE, 16) # 0
        rs == IF has_symbol THEN get_varbytes(rb.cur) ELSE rb
        rn == IF has_note THEN get_varbytes(rs.cur) ELSE rs
    IN  IF ~IsOk(vr) THEN Err(vr.tag)
        ELSE IF ~IsOk(br) THEN Err(br.tag)
        ELSE IF ~IsOk(r3) THEN Err(r3.tag)
        ELSE IF ~flag
             THEN Ok([header |-> h, ts_ns |-> r1.val, price |-> r2.val,
                      qty |-> r3.val, symbol |-> None, note |-> None])
        ELSE IF ~IsOk(rb) THEN Err(rb.tag)
        ELSE IF ~IsOk(rs) THEN Err(rs.tag)
        ELSE IF ~IsOk(rn) THEN Err(rn.tag)
        ELSE Ok([header |-> h, ts_ns |-> r1.val, price |-> r2.val,
                 qty |-> r3.val,
                 symbol |-> IF has_symbol THEN Some(rs.val) ELSE None,
                 note |-> IF has_note THEN Some(rn.val) ELSE None])

\* variant: the discriminator is not compared
trade_decode_any_type(b) ==
    LET hr == header(b)
    IN  IF ~IsOk(hr) THEN Err(hr.tag) ELSE TradeVerified(b, hr.val)

trade_decode(b) ==
    LET hr == header(b)
    IN  IF ~IsOk(hr) THEN Err(hr.tag)
        ELSE IF hr.val.msg_type # TRADE_V1 THEN Err("UnsupportedMsgType")
        ELSE TradeVerified(b, hr.val)

quote_encode(b, seq, ts_ns, bid, ask, level, symbol) ==
    LET encoder == FrameEncoder_new(b)
        header0 == FrameHeader_new(QUOTE_V1, seq, <<0, 0>>)
        hdr1 == IF symbol.some THEN set_flag(header0, PRESENCE_BITMAP) ELSE header0
        bitmap == 2 ^ QUOTE_SYMBOL
        r1 == begin(encoder, hdr1)
        r2 == EncThen(r1, LAMBDA e : put_u64(e, ts_ns))
        r3 == EncThen(r2, LAMBDA e : put_i64(e, bid))
        r4 == EncThen(r3, LAMBDA e : put_i64(e, ask))
        r5 == EncThen(r4, LAMBDA e : put_u8(e, level))
        r6 == IF symbol.some
              THEN EncThen(r5, LAMBDA e : put_bitmap(e, bitmap)) ELSE r5
        r7 == IF symbol.some
              THEN EncThen(r6, LAMBDA e : put_varbytes(e, symbol.bytes)) ELSE r6
    IN  EncThen(r7, LAMBDA e : finish_crc32c(e))

\* quote::decode from verify_crc32c on, for the validated header h
QuoteVerified(b, h) ==
    LET vr == verify_crc32c(b)
        br == body(b)
        r1 == get_u64(br.val)
        r2 == CurThen(r1, LAMBDA r : get_i64(r.cur))
        r3 == CurThen(r2, LAMBDA r : get_i64(r.cur))
        r4 == CurThen(r3, LAMBDA r : get_u8(r.cur))
        flag == has_flag(h, PRESENCE_BITMAP)
        rb == CurThen(r4, LAMBDA r : get_bitmap(r.cur))
        has_symbol == flag /\ BitAnd(rb.val, 2 ^ QUOTE_SYMBOL, 16) # 0
        rs == IF has_symbol THEN get_varbytes(rb.cur) ELSE rb
    IN  IF ~IsOk(vr) THEN Err(vr.tag)
        ELSE IF ~IsOk(br) THEN Err(br.tag)
        ELSE IF ~IsOk(r4) THEN Err(r4.tag)
        ELSE IF ~flag
             THEN Ok([header |-> h, ts_ns |-> r1.val, bid |-> r2.val,
                      ask |-> r3.val, level |-> r4.val, symbol |-> None])
        ELSE IF ~IsOk(rb) THEN Err(rb.tag)
        ELSE IF ~IsOk(rs) THEN Err(rs.tag)
        ELSE Ok([header |-> h, ts_ns |-> r1.val, bid |-> r2.val,
                 ask |-> r3.val, level |-> r4.val,
                 symbol |-> IF has_symbol THEN Some(rs.val) ELSE None])

quote_decode(b) ==
    LET hr == header(b)
    IN  IF ~IsOk(hr) THEN Err(hr.tag)
        ELSE IF hr.val.msg_type # QUOTE_V1 THEN Err("UnsupportedMsgType")
        ELSE QuoteVerified(b, hr.val)

(***************************************************************************)
(* Inputs.  The callers of the tests hand the encoder a zeroed buffer and   *)
(* give the decoder the first n bytes, n being the size encode returned.   *)
(***************************************************************************)
\* room in the caller's buffer
BufLen == 600

\* longest optional field of the round-trip runs
MaxFieldLen == 255

\* largest small length handed to skip, get_bytes and peek_bytes
MaxStep == 3

Zeros(n) == [i \in 1..n |-> 0]

Fill(n, first) == [i \in 1..n |-> (first + i - 1) % 256]

FixedTrades ==
    { [seq |-> <<0, 1>>, ts_ns |-> <<0, 0, 0, 1000>>,
       price |-> <<0, 0, 0, 50000>>, qty |-> <<0, 100>>],
      [seq |-> <<65535, 65535>>, ts_ns |-> <<65535, 65535, 65535, 65535>>,
       price |-> <<32768, 0, 0, 0>>, qty |-> <<65535, 65535>>],
      [seq |-> <<1, 0>>, ts_ns |-> <<4660, 22136, 39612, 57072>>,
       price |-> <<65535, 65535, 65535, 65535>>, qty |-> <<0, 0>>] }

FixedQuotes ==
    { [seq |-> <<0, 2>>, ts_ns |-> <<0, 0, 0, 2000>>,
       bid |-> <<0, 0, 0, 49900>>, ask |-> <<0, 0, 0, 50100>>, level |-> 1],
      [seq |-> <<65535, 65535>>, ts_ns |-> <<65535, 65535, 65535, 65535>>,
       bid |-> <<32768, 0, 0, 0>>, ask |-> <<32767, 65535, 65535, 65535>>,
       level |-> 255],
      [seq |-> <<0, 0>>, ts_ns |-> <<0, 0, 0, 0>>,
       bid |-> <<65535, 65535, 65535, 65535>>, ask |-> <<0, 0, 0, 0>>,
       level |-> 0] }

Trade(f, symbol, note) ==
    [seq |-> f.seq, ts_ns |-> f.ts_ns, price |-> f.price, qty |-> f.qty,
     symbol |-> symbol, note |-> note]

Quote(f, symbol) ==
    [seq |-> f.seq, ts_ns |-> f.ts_ns, bid |-> f.bid, ask |-> f.ask,
     level |-> f.level, symbol |-> symbol]

FieldLens == {0, 1, 127, 128, MaxFieldLen}

Fields == {None} \cup {Some(Fill(n, 65)) : n \in FieldLens}

RoundTripTrades == {Trade(f, s, n) : f \in FixedTrades, s \in Fields, n \in Fields}

RoundTripQuotes == {Quote(f, s) : f \in FixedQuotes, s \in Fields}

SmallTrade == CHOOSE f \in FixedTrades : f.seq = <<0, 1>>

SmallQuote == CHOOSE f \in FixedQuotes : f.seq = <<0, 2>>

\* A trade whose note holds, after one byte, the CRC32C of the frame cut
\* short after that byte: header with len = 24, fixed fields, bitmap, the
\* note's length byte and the note's first byte.
ShortenedSpan ==
    HeaderBytes([set_flag(FrameHeader_new(TRADE_V1, SmallTrade.seq, <<0, 0>>),
                          PRESENCE_BITMAP) EXCEPT !.len = <<0, 24>>])
    \o U64ToLe(SmallTrade.ts_ns) \o U64ToLe(SmallTrade.price)
    \o U32ToLe(SmallTrade.qty) \o U16ToLe(2 ^ TRADE_NOTE) \o <<5, 78>>

NestedTrade ==
    Trade(SmallTrade, None, Some(<<78>> \o U32ToLe(crc32c(ShortenedSpan))))

SmallTrades ==
    {Trade(SmallTrade, s, n) : s \in {None, Some(<<>>), Some(<<83>>)},
                               n \in {None, Some(<<78>>)}}
    \cup {NestedTrade}

SmallQuotes == {Quote(SmallQuote, s) : s \in {None, Some(<<81>>)}}

HeaderOf(magic, ver, flags, msg_type) ==
    [magic |-> magic, ver |-> ver, flags |-> flags, msg_type |-> msg_type,
     seq |-> <<0, 7>>, len |-> <<0, 0>>]

RawFrames ==
    { [header |-> h, body |-> b] :
        h \in { HeaderOf(FRAME_MAGIC, 1, 0, 3),
                HeaderOf(FRAME_MAGIC, 1, 0, TRADE_V1),
                HeaderOf(FRAME_MAGIC - 1, 1, 0, TRADE_V1),
                HeaderOf(FRAME_MAGIC, 2, 0, TRADE_V1),
                HeaderOf(FRAME_MAGIC, 1, 8, QUOTE_V1),
                HeaderOf(0, 0, 255, QUOTE_V1) },
        b \in { <<>>, <<1, 2, 3>> } }

BadMagics == {0, 65535, FRAME_MAGIC - 1, 60926, 65005}

HeaderInputs ==
    { [magic |-> m, ver |-> v, flags |-> f, msg_type |-> TRADE_V1,
       seq |-> <<0, 1>>, len |-> l] :
        m \in {FRAME_MAGIC, 0, FRAME_MAGIC - 1},
        v \in {0, 1, 2},
        f \in {0, 1, 7, 8, 128, 255},
        l \in {<<0, 0>>, <<0, 1>>, <<255, 65516>>, <<255, 65517>>,
               <<65535, 65535>>} }

CursorTrades == {Trade(SmallTrade, Some(<<83>>), Some(<<78>>))}

CursorFrames ==
    { [header |-> HeaderOf(FRAME_MAGIC, 1, 0, 3),
       body |-> <<3, 1, 2, 3, 172, 2, 255, 255, 255, 255, 15, 200, 1>>] }

\* the encoder driven one operation at a time: the sizes of its buffer
EncoderRooms == {10, 24, 48}

\* operations applied to one encoder, and writes among them
MaxOps == 5

MaxPuts == 2

\* headers handed to begin: a valid one announcing a length the body will
\* not have, and one that fails validation
EncoderHeaders ==
    { [FrameHeader_new(TRADE_V1, <<0, 7>>, <<0, 99>>) EXCEPT !.ver = v] : v \in {1, 2} }

\* buffers and bodies around the largest frame
LargeRooms == {MAX_FRAME_SIZE - 1, MAX_FRAME_SIZE, MAX_FRAME_SIZE + 1}

LargeBodies == {MAX_FRAME_SIZE - 21, MAX_FRAME_SIZE - 20, MAX_FRAME_SIZE - 19}

\* buffers of 0..MaxRoom bytes handed to trade::encode and quote::encode
MaxRoom == 50

\* bytes that follow a frame in the buffer handed to the decoder
TrailingBytes == {<<0>>, <<237, 254, 1, 0, 255>>}

\* bitmaps handed to set and clear, the field indices 0..MaxFieldIndex and
\* usize::MAX, and the number of set and clear calls on one bitmap
BitmapBits == {0, 255, 65280, 42405, 65535}

MaxFieldIndex == 17

FieldIndices == {Usize(i) : i \in 0..MaxFieldIndex} \cup {USIZE_MAX}

MaxBitmapCalls == 2

\* hand-built frames that say what an encoded trade or quote says, each in
\* a form the message encoders do not produce: a byte after the last field,
\* the presence flag over an empty bitmap, an undefined bitmap bit, a
\* further header flag, a length prefix of two bytes for a length of 1
FixedTradeBytes ==
    U64ToLe(SmallTrade.ts_ns) \o U64ToLe(SmallTrade.price) \o U32ToLe(SmallTrade.qty)

FixedQuoteBytes ==
    U64ToLe(SmallQuote.ts_ns) \o U64ToLe(SmallQuote.bid) \o U64ToLe(SmallQuote.ask)
    \o <<SmallQuote.level>>

NonCanonicalFrames ==
    { [header |-> HeaderOf(FRAME_MAGIC, 1, 0, TRADE_V1),
       body |-> FixedTradeBytes \o <<9>>],
      [header |-> HeaderOf(FRAME_MAGIC, 1, PRESENCE_BITMAP, TRADE_V1),
       body |-> FixedTradeBytes \o <<0, 0>>],
      [header |-> HeaderOf(FRAME_MAGIC, 1, PRESENCE_BITMAP, TRADE_V1),
       body |-> FixedTradeBytes \o <<5, 0>> \o <<1, 83>>],
      [header |-> HeaderOf(FRAME_MAGIC, 1, COMPRESSED, TRADE_V1),
       body |-> FixedTradeBytes],
      [header |-> HeaderOf(FRAME_MAGIC, 1, PRESENCE_BITMAP, TRADE_V1),
       body |-> FixedTradeBytes \o <<1, 0>> \o <<129, 0, 83>>],
      [header |-> HeaderOf(FRAME_MAGIC, 1, 0, QUOTE_V1),
       body |-> FixedQuoteBytes \o <<9>>],
      [header |-> HeaderOf(FRAME_MAGIC, 1, PRESENCE_BITMAP + ENCRYPTED, QUOTE_V1),
       body |-> FixedQuoteBytes \o <<1, 0>> \o <<129, 0, 81>>] }

\* byte counts handed to skip, get_bytes and peek_bytes: 0..MaxStep,
\* 2^31 - 1 and usize::MAX
SizeArgs == {Usize(n) : n \in 0..MaxStep} \cup {Usize(2147483647), USIZE_MAX}

\* room in the buffer handed to encode_u32 and encode_u64: 0..MaxVarintRoom
MaxVarintRoom == 11

\* most continuation bytes in an input of decode_u32 and decode_u64
MaxVarintBytes == 11

\* 2^e as a word of n limbs
Pow2(e, n) == LimbsShl(1, e, n)

\* 2^e - 1 as a word of n limbs
Pow2Minus1(e, n) ==
    [i \in 1..n |->
        IF 16 * (n - i + 1) <= e THEN 65535
        ELSE IF 16 * (n - i) < e THEN 2 ^ (e - 16 * (n - i)) - 1
        ELSE 0]

\* the values at which the encoded length changes, and the extremes
U32Values ==
    {Pow2(e, 2) : e \in {0, 7, 14, 21, 28, 31}}
    \cup {Pow2Minus1(e, 2) : e \in {0, 7, 14, 21, 28, 32}}
    \cup {<<4660, 22136>>, <<0, 300>>}

U64Values ==
    {Pow2(e, 4) : e \in {7 * k : k \in 0..9}}
    \cup {Pow2Minus1(e, 4) : e \in {7 * k : k \in 0..9} \cup {64}}
    \cup {<<4660, 22136, 39612, 57072>>, <<0, 0, 65535, 65535>>}

\* n continuation bytes c, then a tail
VarintInputs ==
    { [i \in 1..n |-> c] \o t :
        n \in 0..MaxVarintBytes, c \in {128, 255},
        t \in {<<>>, <<0>>, <<127>>, <<1, 128>>} }

(***************************************************************************)
(* The state machine                                                       *)
(***************************************************************************)
NoResult == [op |-> "none", r |-> Err("none")]

NoDamage == [kind |-> "none", at |-> 0, bit |-> 0]

NoCursorResult ==
    [op |-> "none", arg |-> Usize(0), before |-> 0, tag |-> "none", val |-> <<>>]

Init ==
    /\ buf = <<>>
    /\ sent = [kind |-> "none"]
    /\ damage = NoDamage
    /\ stage = "idle"
    /\ last = NoResult
    /\ cur = [buf |-> <<>>, pos |-> 0]
    /\ cres = NoCursorResult
    /\ overflow_checks \in BOOLEAN
    /\ hdr = FrameHeader_new(0, <<0, 0>>, <<0, 0>>)
    /\ hres = Err("none")
    /\ enc = FrameEncoder_new(<<>>)
    /\ presence = PresenceBitmap_new("U8")

\* The caller encodes into a zeroed buffer and keeps the first n bytes, n
\* being the size the encoder returned.
EncodeTrade(m) ==
    LET r == trade_encode(Zeros(BufLen), m.seq, m.ts_ns, m.price, m.qty,
                          m.symbol, m.note)
    IN  /\ stage = "idle"
        /\ stage' = IF r.tag = "Ok" THEN "wire" ELSE "failed"
        /\ buf' = IF r.tag = "Ok" THEN Slice(r.e.buf, 0, r.val) ELSE r.e.buf
        /\ sent' = [kind |-> "trade", msg |-> m]
        /\ damage' = NoDamage
        /\ last' = [op |-> "encode",
                    r |-> IF r.tag = "Ok" THEN Ok(r.val) ELSE Err(r.tag)]
        /\ UNCHANGED <<cur, cres, overflow_checks, hdr, hres, enc, presence>>

EncodeQuote(m) ==
    LET r == quote_encode(Zeros(BufLen), m.seq, m.ts_ns, m.bid, m.ask,
                          m.level, m.symbol)
    IN  /\ stage = "idle"
        /\ stage' = IF r.tag = "Ok" THEN "wire" ELSE "failed"
        /\ buf' = IF r.tag = "Ok" THEN Slice(r.e.buf, 0, r.val) ELSE r.e.buf
        /\ sent' = [kind |-> "quote", msg |-> m]
        /\ damage' = NoDamage
        /\ last' = [op |-> "encode",
                    r |-> IF r.tag = "Ok" THEN Ok(r.val) ELSE Err(r.tag)]
        /\ UNCHANGED <<cur, cres, overflow_checks, hdr, hres, enc, presence>>

\* begin, put_bytes, finish_crc32c on a caller's header
FrameEncode(f) ==
    LET r1 == begin(FrameEncoder_new(Zeros(BufLen)), f.header)
        r2 == EncThen(r1, LAMBDA e : put_bytes(e, f.body))
    IN  EncThen(r2, LAMBDA e : finish_crc32c(e))

EncodeFrame(m) ==
    LET r == FrameEncode(m)
    IN  /\ stage = "idle"
        /\ stage' = IF r.tag = "Ok" THEN "wire" ELSE "failed"
        /\ buf' = IF r.tag = "Ok" THEN Slice(r.e.buf, 0, r.val) ELSE r.e.buf
        /\ sent' = [kind |-> "raw", msg |-> m]
        /\ damage' = NoDamage
        /\ last' = [op |-> "encode",
                    r |-> IF r.tag = "Ok" THEN Ok(r.val) ELSE Err(r.tag)]
        /\ UNCHANGED <<cur, cres, overflow_checks, hdr, hres, enc, presence>>

\* The frame is damaged at most once between the encoder and the decoder.
FlipBit ==
    \E i \in 0..(Len(buf) - 1), k \in 0..7 :
        /\ stage = "wire"
        /\ damage.kind = "none"
        /\ damage' = [kind |-> "flip", at |-> i, bit |-> k]
        /\ buf' = [buf EXCEPT ![i + 1] = BitXor(buf[i + 1], 2 ^ k, 8)]
        /\ UNCHANGED <<sent, stage, last, cur, cres, overflow_checks, hdr, hres, enc, presence>>

Truncate ==
    \E n \in 0..(Len(buf) - 1) :
        /\ stage = "wire"
        /\ damage.kind = "none"
        /\ damage' = [kind |-> "truncate", at |-> n, bit |-> 0]
        /\ buf' = Slice(buf, 0, n)
        /\ UNCHANGED <<sent, stage, last, cur, cres, overflow_checks, hdr, hres, enc, presence>>

\* The decoder is handed more of the buffer than the frame.
Extend ==
    \E t \in TrailingBytes :
        /\ stage = "wire"
        /\ damage.kind = "none"
        /\ damage' = [kind |-> "extend", at |-> Len(buf), bit |-> 0]
        /\ buf' = buf \o t
        /\ UNCHANGED <<sent, stage, last, cur, cres, overflow_checks, hdr, hres, enc, presence>>

CorruptMagic ==
    \E m \in BadMagics :
        /\ stage = "wire"
        /\ damage.kind = "none"
        /\ U16FromLe(<<buf[1], buf[2]>>) = FRAME_MAGIC
        /\ damage' = [kind |-> "magic", at |-> m, bit |-> 0]
        /\ buf' = WriteAt(buf, 0, U16ToLe(m))
        /\ UNCHANGED <<sent, stage, last, cur, cres, overflow_checks, hdr, hres, enc, presence>>

\* A decoder operation on the buffer, and its result.
Header ==
    /\ stage = "wire"
    /\ stage' = "decoded"
    /\ last' = [op |-> "header", r |-> header(buf)]
    /\ UNCHANGED <<buf, sent, damage, cur, cres, overflow_checks, hdr, hres, enc, presence>>

VerifyCrc ==
    /\ stage = "wire"
    /\ stage' = "decoded"
    /\ last' = [op |-> "verify_crc32c", r |-> verify_crc32c(buf)]
    /\ UNCHANGED <<buf, sent, damage, cur, cres, overflow_checks, hdr, hres, enc, presence>>

FrameBuffer ==
    /\ stage = "wire"
    /\ stage' = "decoded"
    /\ last' = [op |-> "frame_buffer", r |-> frame_buffer(buf)]
    /\ UNCHANGED <<buf, sent, damage, cur, cres, overflow_checks, hdr, hres, enc, presence>>

TradeDecode ==
    /\ stage = "wire"
    /\ stage' = "decoded"
    /\ last' = [op |-> "trade_decode", r |-> trade_decode(buf)]
    /\ UNCHANGED <<buf, sent, damage, cur, cres, overflow_checks, hdr, hres, enc, presence>>

QuoteDecode ==
    /\ stage = "wire"
    /\ stage' = "decoded"
    /\ last' = [op |-> "quote_decode", r |-> quote_decode(buf)]
    /\ UNCHANGED <<buf, sent, damage, cur, cres, overflow_checks, hdr, hres, enc, presence>>

Body ==
    LET r == body(buf)
    IN  /\ stage = "wire"
        /\ stage' = IF IsOk(r) THEN "cursor" ELSE "decoded"
        /\ last' = [op |-> "body", r |-> IF IsOk(r) THEN Ok(<<>>) ELSE r]
        /\ cur' = IF IsOk(r) THEN r.val ELSE cur
        /\ UNCHANGED <<buf, sent, damage, cres, overflow_checks, hdr, hres, enc, presence>>

\* A cursor operation on the cursor body() returned, and its result.
Skip ==
    \E n \in SizeArgs :
    LET r == skip(cur, n)
    IN  /\ stage = "cursor"
        /\ stage' = IF r.tag = "Panic" THEN "panicked" ELSE "cursor"
        /\ cres' = [op |-> "skip", arg |-> n, before |-> cur.pos,
                    tag |-> r.tag, val |-> r.val]
        /\ cur' = r.cur
        /\ UNCHANGED <<buf, sent, damage, last, overflow_checks, hdr, hres, enc, presence>>

GetU8 ==
    LET r == get_u8(cur)
    IN  /\ stage = "cursor"
        /\ stage' = IF r.tag = "Panic" THEN "panicked" ELSE "cursor"
        /\ cres' = [op |-> "get_u8", arg |-> Usize(0), before |-> cur.pos,
                    tag |-> r.tag, val |-> r.val]
        /\ cur' = r.cur
        /\ UNCHANGED <<buf, sent, damage, last, overflow_checks, hdr, hres, enc, presence>>

GetU16 ==
    LET r == get_u16(cur)
    IN  /\ stage = "cursor"
        /\ stage' = IF r.tag = "Panic" THEN "panicked" ELSE "cursor"
        /\ cres' = [op |-> "get_u16", arg |-> Usize(0), before |-> cur.pos,
                    tag |-> r.tag, val |-> r.val]
        /\ cur' = r.cur
        /\ UNCHANGED <<buf, sent, damage, last, overflow_checks, hdr, hres, enc, presence>>

GetU32 ==
    LET r == get_u32(cur)
    IN  /\ stage = "cursor"
        /\ stage' = IF r.tag = "Panic" THEN "panicked" ELSE "cursor"
        /\ cres' = [op |-> "get_u32", arg |-> Usize(0), before |-> cur.pos,
                    tag |-> r.tag, val |-> r.val]
        /\ cur' = r.cur
        /\ UNCHANGED <<buf, sent, damage, last, overflow_checks, hdr, hres, enc, presence>>

GetU64 ==
    LET r == get_u64(cur)
    IN  /\ stage = "cursor"
        /\ stage' = IF r.tag = "Panic" THEN "panicked" ELSE "cursor"
        /\ cres' = [op |-> "get_u64", arg |-> Usize(0), before |-> cur.pos,
                    tag |-> r.tag, val |-> r.val]
        /\ cur' = r.cur
        /\ UNCHANGED <<buf, sent, damage, last, overflow_checks, hdr, hres, enc, presence>>

GetI32 ==
    LET r == get_i32(cur)
    IN  /\ stage = "cursor"
        /\ stage' = IF r.tag = "Panic" THEN "panicked" ELSE "cursor"
        /\ cres' = [op |-> "get_i32", arg |-> Usize(0), before |-> cur.pos,
                    tag |-> r.tag, val |-> r.val]
        /\ cur' = r.cur
        /\ UNCHANGED <<buf, sent, damage, last, overflow_checks, hdr, hres, enc, presence>>

GetI64 ==
    LET r == get_i64(cur)
    IN  /\ stage = "cursor"
        /\ stage' = IF r.tag = "Panic" THEN "panicked" ELSE "cursor"
        /\ cres' = [op |-> "get_i64", arg |-> Usize(0), before |-> cur.pos,
                    tag |-> r.tag, val |-> r.val]
        /\ cur' = r.cur
        /\ UNCHANGED <<buf, sent, damage, last, overflow_checks, hdr, hres, enc, presence>>

GetBitmap ==
    LET r == get_bitmap(cur)
    IN  /\ stage = "cursor"
        /\ stage' = IF r.tag = "Panic" THEN "panicked" ELSE "cursor"
        /\ cres' = [op |-> "get_bitmap", arg |-> Usize(0), before |-> cur.pos,
                    tag |-> r.tag, val |-> r.val]
        /\ cur' = r.cur
        /\ UNCHANGED <<buf, sent, damage, last, overflow_checks, hdr, hres, enc, presence>>

GetVarbytes ==
    LET r == get_varbytes(cur)
    IN  /\ stage = "cursor"
        /\ stage' = IF r.tag = "Panic" THEN "panicked" ELSE "cursor"
        /\ cres' = [op |-> "get_varbytes", arg |-> Usize(0), before |-> cur.pos,
                    tag |-> r.tag, val |-> r.val]
        /\ cur' = r.cur
        /\ UNCHANGED <<buf, sent, damage, last, overflow_checks, hdr, hres, enc, presence>>

GetBytes ==
    \E n \in SizeArgs :
    LET r == get_bytes(cur, n)
    IN  /\ stage = "cursor"
        /\ stage' = IF r.tag = "Panic" THEN "panicked" ELSE "cursor"
        /\ cres' = [op |-> "get_bytes", arg |-> n, before |-> cur.pos,
                    tag |-> r.tag, val |-> r.val]
        /\ cur' = r.cur
        /\ UNCHANGED <<buf, sent, damage, last, overflow_checks, hdr, hres, enc, presence>>

GetVarintU32 ==
    LET r == get_varint_u32(cur)
    IN  /\ stage = "cursor"
        /\ stage' = IF r.tag = "Panic" THEN "panicked" ELSE "cursor"
        /\ cres' = [op |-> "get_varint_u32", arg |-> Usize(0), before |-> cur.pos,
                    tag |-> r.tag, val |-> r.val]
        /\ cur' = r.cur
        /\ UNCHANGED <<buf, sent, damage, last, overflow_checks, hdr, hres, enc, presence>>

GetVarintU64 ==
    LET r == get_varint_u64(cur)
    IN  /\ stage = "cursor"
        /\ stage' = IF r.tag = "Panic" THEN "panicked" ELSE "cursor"
        /\ cres' = [op |-> "get_varint_u64", arg |-> Usize(0), before |-> cur.pos,
                    tag |-> r.tag, val |-> r.val]
        /\ cur' = r.cur
        /\ UNCHANGED <<buf, sent, damage, last, overflow_checks, hdr, hres, enc, presence>>

PeekBytes ==
    \E n \in SizeArgs :
    LET r == peek_bytes(cur, n)
    IN  /\ stage = "cursor"
        /\ stage' = IF r.tag = "Panic" THEN "panicked" ELSE "cursor"
        /\ cres' = [op |-> "peek_bytes", arg |-> n, before |-> cur.pos,
                    tag |-> r.tag, val |-> r.val]
        /\ cur' = r.cur
        /\ UNCHANGED <<buf, sent, damage, last, overflow_checks, hdr, hres, enc, presence>>

\* FrameHeader::validate on a header value
Validate ==
    \E h \in HeaderInputs :
        /\ stage = "idle"
        /\ hdr' = h
        /\ hres' = validate(h)
        /\ UNCHANGED <<buf, sent, damage, stage, last, cur, cres, overflow_checks, enc, presence>>

\* varint::encode_u32 into a zeroed buffer; the caller keeps the bytes written
EncodeU32 ==
    \E v \in U32Values, room \in 0..MaxVarintRoom :
        LET r == encode_u32(v, Zeros(room))
        IN  /\ stage = "idle"
            /\ stage' = IF r.tag = "Ok" THEN "varint" ELSE "failed"
            /\ buf' = IF r.tag = "Ok" THEN Slice(r.buf, 0, r.val) ELSE r.buf
            /\ sent' = [kind |-> "u32", msg |-> [value |-> v, room |-> room]]
            /\ last' = [op |-> "encode_u32",
                        r |-> IF r.tag = "Ok" THEN Ok(r.val) ELSE Err(r.tag)]
            /\ UNCHANGED <<damage, cur, cres, overflow_checks, hdr, hres, enc, presence>>

EncodeU64 ==
    \E v \in U64Values, room \in 0..MaxVarintRoom :
        LET r == encode_u64(v, Zeros(room))
        IN  /\ stage = "idle"
            /\ stage' = IF r.tag = "Ok" THEN "varint" ELSE "failed"
            /\ buf' = IF r.tag = "Ok" THEN Slice(r.buf, 0, r.val) ELSE r.buf
            /\ sent' = [kind |-> "u64", msg |-> [value |-> v, room |-> room]]
            /\ last' = [op |-> "encode_u64",
                        r |-> IF r.tag = "Ok" THEN Ok(r.val) ELSE Err(r.tag)]
            /\ UNCHANGED <<damage, cur, cres, overflow_checks, hdr, hres, enc, presence>>

\* bytes from elsewhere handed to the varint decoders
VarintBytes ==
    \E b \in VarintInputs :
        /\ stage = "idle"
        /\ stage' = "varint"
        /\ buf' = b
        /\ sent' = [kind |-> "bytes", msg |-> b]
        /\ UNCHANGED <<damage, last, cur, cres, overflow_checks, hdr, hres, enc, presence>>

DecodeU32 ==
    /\ stage = "varint"
    /\ stage' = "decoded"
    /\ last' = [op |-> "decode_u32", r |-> decode_u32(buf)]
    /\ UNCHANGED <<buf, sent, damage, cur, cres, overflow_checks, hdr, hres, enc, presence>>

DecodeU64 ==
    /\ stage = "varint"
    /\ stage' = "decoded"
    /\ last' = [op |-> "decode_u64", r |-> decode_u64(buf)]
    /\ UNCHANGED <<buf, sent, damage, cur, cres, overflow_checks, hdr, hres, enc, presence>>

\* trade::encode and quote::encode into a buffer of any size
EncodeTradeInto ==
    \E m \in SmallTrades \ {NestedTrade}, room \in 0..MaxRoom :
        LET r == trade_encode(Zeros(room), m.seq, m.ts_ns, m.price, m.qty,
                              m.symbol, m.note)
        IN  /\ stage = "idle"
            /\ stage' = IF r.tag = "Ok" THEN "wire" ELSE "failed"
            /\ buf' = IF r.tag = "Ok" THEN Slice(r.e.buf, 0, r.val) ELSE r.e.buf
            /\ sent' = [kind |-> "trade", msg |-> m, room |-> room]
            /\ damage' = NoDamage
            /\ last' = [op |-> "encode",
                        r |-> IF r.tag = "Ok" THEN Ok(r.val) ELSE Err(r.tag)]
            /\ UNCHANGED <<cur, cres, overflow_checks, hdr, hres, enc, presence>>

EncodeQuoteInto ==
    \E m \in SmallQuotes, room \in 0..MaxRoom :
        LET r == quote_encode(Zeros(room), m.seq, m.ts_ns, m.bid, m.ask,
                              m.level, m.symbol)
        IN  /\ stage = "idle"
            /\ stage' = IF r.tag = "Ok" THEN "wire" ELSE "failed"
            /\ buf' = IF r.tag = "Ok" THEN Slice(r.e.buf, 0, r.val) ELSE r.e.buf
            /\ sent' = [kind |-> "quote", msg |-> m, room |-> room]
            /\ damage' = NoDamage
            /\ last' = [op |-> "encode",
                        r |-> IF r.tag = "Ok" THEN Ok(r.val) ELSE Err(r.tag)]
            /\ UNCHANGED <<cur, cres, overflow_checks, hdr, hres, enc, presence>>

(***************************************************************************)
(* The encoder used directly (encoder.rs).  sent records the buffer size   *)
(* and the operations applied so far, each with its argument and the tag   *)
(* of its result.  A panic ends the use of the encoder.                    *)
(***************************************************************************)
Recorded(op, arg, tag) ==
    [sent EXCEPT !.msg.ops = Append(@, [op |-> op, arg |-> arg, tag |-> tag])]

Puts(ops) == Cardinality({i \in 1..Len(ops) : ops[i].op \notin {"begin", "finish_crc32c", "reset"}})

MayCall == stage = "encoder" /\ Len(sent.msg.ops) < MaxOps

MayPut == MayCall /\ Puts(sent.msg.ops) < MaxPuts

EncoderResult(op, r) ==
    [op |-> op, r |-> IF r.tag = "Ok" THEN Ok(r.val) ELSE Err(r.tag)]

NewEncoder ==
    \E room \in EncoderRooms :
        /\ stage = "idle"
        /\ stage' = "encoder"
        /\ enc' = FrameEncoder_new(Zeros(room))
        /\ sent' = [kind |-> "ops", msg |-> [room |-> room, ops |-> <<>>]]
        /\ last' = [op |-> "new", r |-> Ok(0)]
        /\ UNCHANGED <<buf, damage, cur, cres, overflow_checks, hdr, hres, presence>>

Begin ==
    \E h \in EncoderHeaders :
        LET r == begin(enc, h)
        IN  /\ MayCall
            /\ stage' = IF r.tag = "Panic" THEN "panicked" ELSE "encoder"
            /\ enc' = r.e
            /\ sent' = Recorded("begin", h, r.tag)
            /\ last' = EncoderResult("begin", r)
            /\ UNCHANGED <<buf, damage, cur, cres, overflow_checks, hdr, hres, presence>>

PutU8 ==
    \E v \in {171} :
        LET r == put_u8(enc, v)
        IN  /\ MayPut
            /\ stage' = IF r.tag = "Panic" THEN "panicked" ELSE "encoder"
            /\ enc' = r.e
            /\ sent' = Recorded("put_u8", v, r.tag)
            /\ last' = EncoderResult("put_u8", r)
            /\ UNCHANGED <<buf, damage, cur, cres, overflow_checks, hdr, hres, presence>>

PutU16 ==
    \E v \in {4660} :
        LET r == put_u16(enc, v)
        IN  /\ MayPut
            /\ stage' = IF r.tag = "Panic" THEN "panicked" ELSE "encoder"
            /\ enc' = r.e
            /\ sent' = Recorded("put_u16", v, r.tag)
            /\ last' = EncoderResult("put_u16", r)
            /\ UNCHANGED <<buf, damage, cur, cres, overflow_checks, hdr, hres, presence>>

PutU32 ==
    \E v \in {<<4660, 22136>>} :
        LET r == put_u32(enc, v)
        IN  /\ MayPut
            /\ stage' = IF r.tag = "Panic" THEN "panicked" ELSE "encoder"
            /\ enc' = r.e
            /\ sent' = Recorded("put_u32", v, r.tag)
            /\ last' = EncoderResult("put_u32", r)
            /\ UNCHANGED <<buf, damage, cur, cres, overflow_checks, hdr, hres, presence>>

PutU64 ==
    \E v \in {<<1, 2, 3, 4>>} :
        LET r == put_u64(enc, v)
        IN  /\ MayPut
            /\ stage' = IF r.tag = "Panic" THEN "panicked" ELSE "encoder"
            /\ enc' = r.e
            /\ sent' = Recorded("put_u64", v, r.tag)
            /\ last' = EncoderResult("put_u64", r)
            /\ UNCHANGED <<buf, damage, cur, cres, overflow_checks, hdr, hres, presence>>

\* -2 as i32
PutI32 ==
    \E v \in {<<65535, 65534>>} :
        LET r == put_i32(enc, v)
        IN  /\ MayPut
            /\ stage' = IF r.tag = "Panic" THEN "panicked" ELSE "encoder"
            /\ enc' = r.e
            /\ sent' = Recorded("put_i32", v, r.tag)
            /\ last' = EncoderResult("put_i32", r)
            /\ UNCHANGED <<buf, damage, cur, cres, overflow_checks, hdr, hres, presence>>

\* -3 as i64
PutI64 ==
    \E v \in {<<65535, 65535, 65535, 65533>>} :
        LET r == put_i64(enc, v)
        IN  /\ MayPut
            /\ stage' = IF r.tag = "Panic" THEN "panicked" ELSE "encoder"
            /\ enc' = r.e
            /\ sent' = Recorded("put_i64", v, r.tag)
            /\ last' = EncoderResult("put_i64", r)
            /\ UNCHANGED <<buf, damage, cur, cres, overflow_checks, hdr, hres, presence>>

PutBitmap ==
    \E v \in {3} :
        LET r == put_bitmap(enc, v)
        IN  /\ MayPut
            /\ stage' = IF r.tag = "Panic" THEN "panicked" ELSE "encoder"
            /\ enc' = r.e
            /\ sent' = Recorded("put_bitmap", v, r.tag)
            /\ last' = EncoderResult("put_bitmap", r)
            /\ UNCHANGED <<buf, damage, cur, cres, overflow_checks, hdr, hres, presence>>

PutBytes ==
    \E v \in {<<9, 8, 7>>} :
        LET r == put_bytes(enc, v)
        IN  /\ MayPut
            /\ stage' = IF r.tag = "Panic" THEN "panicked" ELSE "encoder"
            /\ enc' = r.e
            /\ sent' = Recorded("put_bytes", v, r.tag)
            /\ last' = EncoderResult("put_bytes", r)
            /\ UNCHANGED <<buf, damage, cur, cres, overflow_checks, hdr, hres, presence>>

PutVarbytes ==
    \E v \in {Fill(5, 65)} :
        LET r == put_varbytes(enc, v)
        IN  /\ MayPut
            /\ stage' = IF r.tag = "Panic" THEN "panicked" ELSE "encoder"
            /\ enc' = r.e
            /\ sent' = Recorded("put_varbytes", v, r.tag)
            /\ last' = EncoderResult("put_varbytes", r)
            /\ UNCHANGED <<buf, damage, cur, cres, overflow_checks, hdr, hres, presence>>

PutVarintU32 ==
    \E v \in {<<0, 300>>} :
        LET r == put_varint_u32(enc, v)
        IN  /\ MayPut
            /\ stage' = IF r.tag = "Panic" THEN "panicked" ELSE "encoder"
            /\ enc' = r.e
            /\ sent' = Recorded("put_varint_u32", v, r.tag)
            /\ last' = EncoderResult("put_varint_u32", r)
            /\ UNCHANGED <<buf, damage, cur, cres, overflow_checks, hdr, hres, presence>>

PutVarintU64 ==
    \E v \in {<<0, 0, 1, 0>>} :
        LET r == put_varint_u64(enc, v)
        IN  /\ MayPut
            /\ stage' = IF r.tag = "Panic" THEN "panicked" ELSE "encoder"
            /\ enc' = r.e
            /\ sent' = Recorded("put_varint_u64", v, r.tag)
            /\ last' = EncoderResult("put_varint_u64", r)
            /\ UNCHANGED <<buf, damage, cur, cres, overflow_checks, hdr, hres, presence>>

FinishCrc32c ==
    LET r == finish_crc32c(enc)
    IN  /\ MayCall
        /\ stage' = IF r.tag = "Panic" THEN "panicked" ELSE "encoder"
        /\ enc' = r.e
        /\ sent' = Recorded("finish_crc32c", 0, r.tag)
        /\ last' = EncoderResult("finish_crc32c", r)
        /\ UNCHANGED <<buf, damage, cur, cres, overflow_checks, hdr, hres, presence>>

Reset ==
    /\ MayCall
    /\ \A i \in 1..Len(sent.msg.ops) : sent.msg.ops[i].op # "reset"
    /\ stage' = "encoder"
    /\ enc' = reset(enc)
    /\ sent' = Recorded("reset", 0, "Ok")
    /\ last' = [op |-> "reset", r |-> Ok(0)]
    /\ UNCHANGED <<buf, damage, cur, cres, overflow_checks, hdr, hres, presence>>

\* A frame of one large put_bytes, followed through the lengths alone.
EncodeLarge ==
    \E room \in LargeRooms, n \in LargeBodies, h \in EncoderHeaders :
        LET s0 == [len |-> room, pos |-> 0, header_start |-> 0, body_start |-> 0]
            r1 == begin_lengths(s0)
            r2 == IF r1.tag = "Ok" THEN put_bytes_lengths(r1.e, n) ELSE r1
            r3 == IF r2.tag = "Ok" THEN finish_crc32c_lengths(r2.e) ELSE r2
        IN  /\ stage = "idle"
            /\ stage' = IF r3.tag = "Ok" THEN "large" ELSE "failed"
            /\ sent' = [kind |-> "large", msg |-> [room |-> room, body |-> n, header |-> h]]
            /\ last' = [op |-> "encode", r |-> IF r3.tag = "Ok" THEN Ok(r3.val) ELSE Err(r3.tag)]
            /\ hdr' = IF r3.tag = "Ok" THEN [h EXCEPT !.len = body_len_written(r2.e)] ELSE h
            /\ hres' = IF r3.tag = "Ok"
                       THEN validate([h EXCEPT !.len = body_len_written(r2.e)])
                       ELSE hres
            /\ UNCHANGED <<buf, damage, cur, cres, overflow_checks, enc, presence>>

(***************************************************************************)
(* The presence bitmap under set and clear.  sent keeps the bitmap before  *)
(* the last call, the index handed to it and the number of calls.          *)
(***************************************************************************)
NewBitmap ==
    \E size \in {"U8", "U16"} :
        /\ stage = "idle"
        /\ stage' = "bitmap"
        /\ presence' = PresenceBitmap_new(size)
        /\ sent' = [kind |-> "bitmap", msg |-> [before |-> presence, idx |-> Usize(0), calls |-> 0]]
        /\ last' = [op |-> "new", r |-> Ok(0)]
        /\ UNCHANGED <<buf, damage, cur, cres, overflow_checks, hdr, hres, enc>>

FromBits ==
    \E bits \in BitmapBits, size \in {"U8", "U16"} :
        /\ stage = "idle"
        /\ stage' = "bitmap"
        /\ presence' = PresenceBitmap_from_bits(bits, size)
        /\ sent' = [kind |-> "bitmap", msg |-> [before |-> presence, idx |-> Usize(0), calls |-> 0]]
        /\ last' = [op |-> "from_bits", r |-> Ok(0)]
        /\ UNCHANGED <<buf, damage, cur, cres, overflow_checks, hdr, hres, enc>>

BitmapSet ==
    \E idx \in FieldIndices :
        LET r == PresenceBitmap_set(presence, idx)
        IN  /\ stage = "bitmap"
            /\ sent.msg.calls < MaxBitmapCalls
            /\ presence' = r.b
            /\ sent' = [kind |-> "bitmap",
                        msg |-> [before |-> presence, idx |-> idx,
                                 calls |-> sent.msg.calls + 1]]
            /\ last' = [op |-> "set", r |-> IF r.tag = "Ok" THEN Ok(0) ELSE Err(r.tag)]
            /\ UNCHANGED <<buf, damage, stage, cur, cres, overflow_checks, hdr, hres, enc>>

BitmapClear ==
    \E idx \in FieldIndices :
        LET r == PresenceBitmap_clear(presence, idx)
        IN  /\ stage = "bitmap"
            /\ sent.msg.calls < MaxBitmapCalls
            /\ presence' = r.b
            /\ sent' = [kind |-> "bitmap",
                        msg |-> [before |-> presence, idx |-> idx,
                                 calls |-> sent.msg.calls + 1]]
            /\ last' = [op |-> "clear", r |-> IF r.tag = "Ok" THEN Ok(0) ELSE Err(r.tag)]
            /\ UNCHANGED <<buf, damage, stage, cur, cres, overflow_checks, hdr, hres, enc>>

\* frames, each damaged at most once, under every decoder operation
Next ==
    \/ \E m \in SmallTrades : EncodeTrade(m)
    \/ \E m \in SmallQuotes : EncodeQuote(m)
    \/ \E m \in RawFrames : EncodeFrame(m)
    \/ FlipBit
    \/ Truncate
    \/ CorruptMagic
    \/ Header
    \/ VerifyCrc
    \/ Body
    \/ FrameBuffer
    \/ TradeDecode
    \/ QuoteDecode

Spec == Init /\ [][Next]_vars

\* undamaged frames with optional fields of every length class
NextRoundTrip ==
    \/ \E m \in RoundTripTrades : EncodeTrade(m)
    \/ \E m \in RoundTripQuotes : EncodeQuote(m)
    \/ VerifyCrc
    \/ TradeDecode
    \/ QuoteDecode

SpecRoundTrip == Init /\ [][NextRoundTrip]_vars

NextHeader == Validate

SpecHeader == Init /\ [][NextHeader]_vars

NextCursor ==
    \/ \E m \in CursorTrades : EncodeTrade(m)
    \/ \E m \in CursorFrames : EncodeFrame(m)
    \/ Body
    \/ Skip
    \/ GetU8
    \/ GetU16
    \/ GetU32
    \/ GetU64
    \/ GetI32
    \/ GetI64
    \/ GetBitmap
    \/ GetVarbytes
    \/ GetBytes
    \/ GetVarintU32
    \/ GetVarintU64
    \/ PeekBytes

SpecCursor == Init /\ [][NextCursor]_vars

\* the varint codec on boundary values and on arbitrary bytes
NextVarint ==
    \/ EncodeU32
    \/ EncodeU64
    \/ VarintBytes
    \/ DecodeU32
    \/ DecodeU64

SpecVarint == Init /\ [][NextVarint]_vars

\* one encoder under every sequence of its operations
NextEncoder ==
    \/ NewEncoder
    \/ Begin
    \/ PutU8
    \/ PutU16
    \/ PutU32
    \/ PutU64
    \/ PutI32
    \/ PutI64
    \/ PutBitmap
    \/ PutBytes
    \/ PutVarbytes
    \/ PutVarintU32
    \/ PutVarintU64
    \/ FinishCrc32c
    \/ Reset
    \/ EncodeLarge

SpecEncoder == Init /\ [][NextEncoder]_vars

\* the message encoders on buffers too short, just right and too long
NextRoom ==
    \/ EncodeTradeInto
    \/ EncodeQuoteInto

SpecRoom == Init /\ [][NextRoom]_vars

\* frames cut short or followed by other bytes, under body and frame_buffer
NextSpan ==
    \/ \E m \in SmallTrades : EncodeTrade(m)
    \/ \E m \in SmallQuotes : EncodeQuote(m)
    \/ \E m \in RawFrames : EncodeFrame(m)
    \/ Truncate
    \/ Extend
    \/ Body
    \/ FrameBuffer

SpecSpan == Init /\ [][NextSpan]_vars

\* a bitmap of either size under set and clear at every index
NextBitmap ==
    \/ NewBitmap
    \/ FromBits
    \/ BitmapSet
    \/ BitmapClear

SpecBitmap == Init /\ [][NextBitmap]_vars

\* encoded and hand-built frames under the message decoders
NextCanonical ==
    \/ \E m \in RoundTripTrades : EncodeTrade(m)
    \/ \E m \in RoundTripQuotes : EncodeQuote(m)
    \/ \E m \in NonCanonicalFrames : EncodeFrame(m)
    \/ TradeDecode
    \/ QuoteDecode

SpecCanonical == Init /\ [][NextCanonical]_vars

(***************************************************************************)
(* Properties                                                              *)
(***************************************************************************)
\* the frame in buf left the encoder as a valid frame
SentValid ==
    \/ sent.kind \in {"trade", "quote"}
    \/ sent.kind = "raw" /\ validate(sent.msg.header).tag = "Ok"

\* the discriminator the frame was encoded with
SentType ==
    IF sent.kind = "trade" THEN TRADE_V1
    ELSE IF sent.kind = "quote" THEN QUOTE_V1
    ELSE sent.msg.header.msg_type

\* The total frame size b announces: that of its valid header, or the one
\* its raw len field gives when the header is invalid and the length is
\* within MAX_FRAME_SIZE; 0 when b announces none.
AnnouncedSize(b) ==
    IF Len(b) < HEADER_SIZE THEN 0
    ELSE LET len == U32AsUsize(RawHeader(b).len)
         IN  IF \/ header(b).tag = "Ok"
                \/ UsizeLe(len, Usize(MAX_FRAME_SIZE - HEADER_SIZE - 4))
             THEN HEADER_SIZE + UsizeInt(len) + 4
             ELSE 0

\* b holds a frame of the given size whose trailer is the CRC32C of the rest
Intact(b, size) ==
    /\ size > 0
    /\ Len(b) >= size
    /\ crc32c(Slice(b, 0, size - 4)) = U32FromLe(Slice(b, size - 4, size))

\* b holds a frame of the given size whose trailer is not that CRC32C
Broken(b, size) ==
    /\ size > 0
    /\ Len(b) >= size
    /\ crc32c(Slice(b, 0, size - 4)) # U32FromLe(Slice(b, size - 4, size))

\* C1: decoding the n bytes a trade or quote encode returned yields the
\* values that were encoded: seq, the schema's discriminator, every fixed
\* field and every optional field, absent, empty or up to 255 bytes long.
C1_RoundTrip ==
    /\ (last.op = "trade_decode" /\ sent.kind = "trade" /\ damage.kind = "none")
         => /\ last.r.tag = "Ok"
            /\ last.r.val.header.seq = sent.msg.seq
            /\ last.r.val.header.msg_type = TRADE_V1
            /\ last.r.val.ts_ns = sent.msg.ts_ns
            /\ last.r.val.price = sent.msg.price
            /\ last.r.val.qty = sent.msg.qty
            /\ last.r.val.symbol = sent.msg.symbol
            /\ last.r.val.note = sent.msg.note
    /\ (last.op = "quote_decode" /\ sent.kind = "quote" /\ damage.kind = "none")
         => /\ last.r.tag = "Ok"
            /\ last.r.val.header.seq = sent.msg.seq
            /\ last.r.val.header.msg_type = QUOTE_V1
            /\ last.r.val.ts_ns = sent.msg.ts_ns
            /\ last.r.val.bid = sent.msg.bid
            /\ last.r.val.ask = sent.msg.ask
            /\ last.r.val.level = sent.msg.level
            /\ last.r.val.symbol = sent.msg.symbol

\* a trade with an empty symbol and a note of 255 bytes was decoded
C1_Witness ==
    /\ last.op = "trade_decode"
    /\ sent.kind = "trade"
    /\ last.r.tag = "Ok"
    /\ sent.msg.symbol.some
    /\ Len(sent.msg.symbol.bytes) = 0
    /\ sent.msg.note.some
    /\ Len(sent.msg.note.bytes) >= 255
    /\ sent.msg.price = <<32768, 0, 0, 0>>

\* C2: once a total size is announced and the buffer holds that many bytes,
\* verify_crc32c returns CrcMismatch whenever the trailer differs from the
\* CRC32C of the bytes before it, whether or not the header is valid.
C2_MismatchReported ==
    (last.op = "verify_crc32c" /\ Broken(buf, AnnouncedSize(buf)))
        => last.r.tag = "CrcMismatch"

\* verify_crc32c ran on a frame with an invalid header and a wrong trailer
C2_Witness ==
    /\ last.op = "verify_crc32c"
    /\ header(buf).tag \notin {"Ok", "UnexpectedEof"}
    /\ Broken(buf, AnnouncedSize(buf))
    /\ last.r.tag = "CrcMismatch"

\* C3: when the trailer equals the CRC32C of the header and body,
\* verify_crc32c returns what header() returns for the same buffer: Ok for a
\* valid header, else the same error; it is never Ok when header() is not.
C3_HeaderResultKept ==
    last.op = "verify_crc32c" =>
        /\ Intact(buf, AnnouncedSize(buf)) => last.r.tag = header(buf).tag
        /\ last.r.tag = "Ok" => header(buf).tag = "Ok"

\* verify_crc32c ran on a frame with a foreign magic and a matching trailer
C3_Witness ==
    /\ last.op = "verify_crc32c"
    /\ Intact(buf, AnnouncedSize(buf))
    /\ header(buf).tag = "InvalidMagic"
    /\ last.r.tag = "InvalidMagic"

\* only the magic number of a valid frame was changed
MagicCorrupted ==
    /\ SentValid
    /\ \/ damage.kind = "magic"
       \/ damage.kind = "flip" /\ damage.at < 2

\* C4, as stated: with only the magic number of a valid frame corrupted,
\* verify_crc32c reports InvalidMagic, as header() does.
C4_Stated ==
    /\ (MagicCorrupted /\ last.op = "verify_crc32c") => last.r.tag = "InvalidMagic"
    /\ (MagicCorrupted /\ last.op = "header") => last.r.tag = "InvalidMagic"

\* C4, as the code has it: with only the magic number of a valid frame
\* corrupted, verify_crc32c reports CrcMismatch, while header() on the same
\* buffer reports InvalidMagic.
C4_CrcMismatchFirst ==
    /\ (MagicCorrupted /\ last.op = "verify_crc32c") => last.r.tag = "CrcMismatch"
    /\ (MagicCorrupted /\ last.op = "header") => last.r.tag = "InvalidMagic"

\* verify_crc32c ran on a valid trade frame whose magic was overwritten
C4_Witness ==
    /\ MagicCorrupted
    /\ damage.kind = "magic"
    /\ sent.kind = "trade"
    /\ last.op = "verify_crc32c"
    /\ last.r.tag = "CrcMismatch"

\* C5: verify_crc32c returns an error for a valid frame with any single bit
\* of its header, body or trailer flipped.
C5_FlipDetected ==
    (SentValid /\ damage.kind = "flip" /\ last.op = "verify_crc32c")
        => last.r.tag # "Ok"

\* C6: no decoder operation and no operation of a cursor returned by body()
\* indexes outside its buffer or overflows an addition.
C6_NoPanic ==
    /\ last.r.tag # "Panic"
    /\ cres.tag # "Panic"
    /\ stage # "panicked"

\* what is wrong with the header under validation, one check at a time
BadMagic == hdr.magic # FRAME_MAGIC

BadVersion == hdr.ver # 1

BadFlags == hdr.flags >= 8

\* len + 20 > MAX_FRAME_SIZE, on the two 16-bit halves of len
BadSize == hdr.len[1] > 255 \/ (hdr.len[1] = 255 /\ hdr.len[2] > 65516)

\* C7: validate reports the first failing check in the order magic,
\* version, reserved flag bits, total size: InvalidMagic before
\* UnsupportedVersion before FlagConflict before Overflow.
C7_ValidateOrder ==
    hres.tag # "none" =>
        hres.tag = IF BadMagic THEN "InvalidMagic"
                   ELSE IF BadVersion THEN "UnsupportedVersion"
                   ELSE IF BadFlags THEN "FlagConflict"
                   ELSE IF BadSize THEN "Overflow"
                   ELSE "Ok"

\* a header failing the last three checks, but not the first, was validated
C7_Witness ==
    /\ ~BadMagic
    /\ BadVersion
    /\ BadFlags
    /\ BadSize
    /\ hres.tag = "UnsupportedVersion"

\* the optional fields handed to the encoder
Supplied ==
    IF sent.kind = "trade"
    THEN {f \in {"symbol", "note"} : sent.msg[f].some}
    ELSE {f \in {"symbol"} : sent.msg[f].some}

\* the optional fields the matching decode returned
Returned ==
    IF sent.kind = "trade"
    THEN {f \in {"symbol", "note"} : last.r.val[f].some}
    ELSE {f \in {"symbol"} : last.r.val[f].some}

\* the decode of the schema the frame was encoded with has run
MatchingDecode ==
    \/ sent.kind = "trade" /\ last.op = "trade_decode"
    \/ sent.kind = "quote" /\ last.op = "quote_decode"

\* C8: the PRESENCE_BITMAP flag of an encoded trade or quote is set exactly
\* when an optional field was supplied, empty or not, and the matching
\* decode returns exactly the optional fields that were supplied.
C8_PresenceFlag ==
    (sent.kind \in {"trade", "quote"} /\ damage.kind = "none"
                                      /\ stage \in {"wire", "decoded"})
        => /\ (BitAnd(buf[4], PRESENCE_BITMAP, 8) # 0) <=> (Supplied # {})
           /\ MatchingDecode => (last.r.tag = "Ok" /\ Returned = Supplied)

\* a trade with an empty symbol and no note was decoded with its flag set
C8_Witness ==
    /\ sent.kind = "trade"
    /\ last.op = "trade_decode"
    /\ sent.msg.symbol = Some(<<>>)
    /\ ~sent.msg.note.some
    /\ BitAnd(buf[4], PRESENCE_BITMAP, 8) # 0
    /\ last.r.tag = "Ok"
    /\ Returned = {"symbol"}

\* C9: on every strict prefix of a valid frame, verify_crc32c, frame_buffer
\* and the decode of the frame's schema return UnexpectedEof.
C9_Truncation ==
    (SentValid /\ damage.kind = "truncate")
        => /\ last.op \in {"verify_crc32c", "frame_buffer"}
                => last.r.tag = "UnexpectedEof"
           /\ (last.op = "trade_decode" /\ SentType = TRADE_V1)
                => last.r.tag = "UnexpectedEof"
           /\ (last.op = "quote_decode" /\ SentType = QUOTE_V1)
                => last.r.tag = "UnexpectedEof"

\* frame_buffer ran on a trade frame that lost only bytes of its trailer
C9_Witness ==
    /\ sent.kind = "trade"
    /\ damage.kind = "truncate"
    /\ Len(buf) >= HEADER_SIZE
    /\ UsizeLe(U32AsUsize(RawHeader(buf).len), Usize(Len(buf) - HEADER_SIZE))
    /\ last.op = "frame_buffer"
    /\ last.r.tag = "UnexpectedEof"

\* C10: on a buffer whose header is valid and carries another discriminator
\* than the schema's, trade::decode and quote::decode return
\* UnsupportedMsgType, whatever the body and the trailer hold.
C10_ForeignType ==
    /\ (last.op = "trade_decode" /\ header(buf).tag = "Ok"
                                 /\ RawHeader(buf).msg_type # TRADE_V1)
         => last.r.tag = "UnsupportedMsgType"
    /\ (last.op = "quote_decode" /\ header(buf).tag = "Ok"
                                 /\ RawHeader(buf).msg_type # QUOTE_V1)
         => last.r.tag = "UnsupportedMsgType"

\* trade::decode ran on a quote frame whose checksum no longer matches
C10_Witness ==
    /\ last.op = "trade_decode"
    /\ header(buf).tag = "Ok"
    /\ RawHeader(buf).msg_type = QUOTE_V1
    /\ verify_crc32c(buf).tag = "CrcMismatch"
    /\ last.r.tag = "UnsupportedMsgType"

\* the number of bits of a 16-bit limb, 0 for 0
BitLen16(x) == CHOOSE b \in 0..16 : x < 2 ^ b /\ (b = 0 \/ x >= 2 ^ (b - 1))

\* the number of bits of a limb word, 0 for 0
BitLen(w) ==
    LET nz == {i \in 1..Len(w) : w[i] # 0}
    IN  IF nz = {} THEN 0
        ELSE LET i == CHOOSE k \in nz : \A m \in nz : k <= m
             IN  16 * (Len(w) - i) + BitLen16(w[i])

\* the minimal LEB128 length: 1 below 2^7, 2 below 2^14, and so on
MinimalLength(w) == IF BitLen(w) = 0 THEN 1 ELSE (BitLen(w) + 6) \div 7

\* the first n bytes of b all carry the continuation bit
AllContinue(b, n) == \A i \in 1..n : b[i] >= 128

\* C11: encode_u32 (encode_u64) into a buffer of at least 5 (10) bytes
\* returns the minimal LEB128 length k of the value, at most 5 (10), and
\* decode of the k bytes written returns the value and k.
C11_VarintRoundTrip ==
    /\ (last.op = "encode_u32" /\ sent.msg.room >= MAX_VARINT_U32_SIZE)
         => /\ last.r.tag = "Ok"
            /\ last.r.val = MinimalLength(sent.msg.value)
            /\ last.r.val <= MAX_VARINT_U32_SIZE
            /\ Len(buf) = last.r.val
    /\ (last.op = "encode_u64" /\ sent.msg.room >= MAX_VARINT_U64_SIZE)
         => /\ last.r.tag = "Ok"
            /\ last.r.val = MinimalLength(sent.msg.value)
            /\ last.r.val <= MAX_VARINT_U64_SIZE
            /\ Len(buf) = last.r.val
    /\ (last.op = "decode_u32" /\ sent.kind = "u32")
         => /\ last.r.tag = "Ok"
            /\ last.r.val.value = sent.msg.value
            /\ last.r.val.size = Len(buf)
            /\ last.r.val.size = MinimalLength(sent.msg.value)
    /\ (last.op = "decode_u64" /\ sent.kind = "u64")
         => /\ last.r.tag = "Ok"
            /\ last.r.val.value = sent.msg.value
            /\ last.r.val.size = Len(buf)
            /\ last.r.val.size = MinimalLength(sent.msg.value)

\* u64::MAX was encoded in 10 bytes and decoded again
C11_Witness ==
    /\ last.op = "decode_u64"
    /\ sent.kind = "u64"
    /\ sent.msg.value = <<65535, 65535, 65535, 65535>>
    /\ sent.msg.room >= MAX_VARINT_U64_SIZE
    /\ last.r.tag = "Ok"
    /\ last.r.val.size = 10

\* C12: decode_u32 (decode_u64) returns UnexpectedEof when the input ends
\* on a continuation bit, the empty input included, Overflow when a sixth
\* (eleventh) byte would have to be read, and consumes at most 5 (10) bytes
\* on success.
C12_VarintErrors ==
    /\ last.op = "decode_u32"
         => /\ last.r.tag = "UnexpectedEof"
                <=> (Len(buf) <= MAX_VARINT_U32_SIZE /\ AllContinue(buf, Len(buf)))
            /\ last.r.tag = "Overflow"
                <=> (Len(buf) > MAX_VARINT_U32_SIZE
                     /\ AllContinue(buf, MAX_VARINT_U32_SIZE))
            /\ last.r.tag = "Ok" => last.r.val.size <= MAX_VARINT_U32_SIZE
    /\ last.op = "decode_u64"
         => /\ last.r.tag = "UnexpectedEof"
                <=> (Len(buf) <= MAX_VARINT_U64_SIZE /\ AllContinue(buf, Len(buf)))
            /\ last.r.tag = "Overflow"
                <=> (Len(buf) > MAX_VARINT_U64_SIZE
                     /\ AllContinue(buf, MAX_VARINT_U64_SIZE))
            /\ last.r.tag = "Ok" => last.r.val.size <= MAX_VARINT_U64_SIZE

\* decode_u32 ran on exactly five continuation bytes
C12_Witness ==
    /\ last.op = "decode_u32"
    /\ Len(buf) = MAX_VARINT_U32_SIZE
    /\ AllContinue(buf, Len(buf))
    /\ last.r.tag = "UnexpectedEof"

\* the operations the encoder under use has seen
Ops == sent.msg.ops

IsPut(o) == o.op \notin {"begin", "finish_crc32c", "reset"}

\* the LEB128 bytes of a value
Leb128U32(v) == LET r == encode_u32(v, Zeros(MAX_VARINT_U32_SIZE)) IN Slice(r.buf, 0, r.val)

Leb128U64(v) == LET r == encode_u64(v, Zeros(MAX_VARINT_U64_SIZE)) IN Slice(r.buf, 0, r.val)

\* the bytes a write puts on the wire
OpBytes(o) ==
    CASE o.op = "put_u8" -> <<o.arg>>
      [] o.op \in {"put_u16", "put_bitmap"} -> U16ToLe(o.arg)
      [] o.op \in {"put_u32", "put_i32"} -> U32ToLe(o.arg)
      [] o.op \in {"put_u64", "put_i64"} -> U64ToLe(o.arg)
      [] o.op = "put_bytes" -> o.arg
      [] o.op = "put_varbytes" -> Leb128U32(UsizeAsU32(Len(o.arg))) \o o.arg
      [] o.op = "put_varint_u32" -> Leb128U32(o.arg)
      [] o.op = "put_varint_u64" -> Leb128U64(o.arg)

\* the bytes of the writes ops[a..b]
RECURSIVE WireBytes(_, _, _)
WireBytes(ops, a, b) == IF a > b THEN <<>> ELSE OpBytes(ops[a]) \o WireBytes(ops, a + 1, b)

\* the index of the last begin among the operations, 0 if there is none
LastBegin(ops) ==
    LET at == {i \in 1..Len(ops) : ops[i].op = "begin"}
    IN  IF at = {} THEN 0 ELSE CHOOSE i \in at : \A j \in at : j <= i

\* the operations end with begin, successful writes and finish, all Ok
FrameCompleted(ops) ==
    LET k == LastBegin(ops)
    IN  /\ k > 0
        /\ ops[Len(ops)].op = "finish_crc32c"
        /\ \A i \in k..Len(ops) : ops[i].tag = "Ok"
        /\ \A i \in (k + 1)..(Len(ops) - 1) : IsPut(ops[i])

\* the bytes of the frame finish_crc32c has just completed
CompletedFrame == Slice(enc.buf, enc.header_start, enc.pos)

\* the statement of C13 on the frames followed byte by byte
FinishPatchesBytes ==
    (stage = "encoder" /\ Len(Ops) > 0 /\ FrameCompleted(Ops))
        => LET k == LastBegin(Ops)
               h == Ops[k].arg
               written == WireBytes(Ops, k + 1, Len(Ops) - 1)
               b == Len(written)
               f == CompletedFrame
           IN  /\ last.r.tag = "Ok"
               /\ last.r.val = HEADER_SIZE + b + 4
               /\ Len(f) = last.r.val
               /\ Slice(f, 10, 14) = U32ToLe(<<0, b>>)
               /\ RawHeader(f) = [h EXCEPT !.len = <<0, b>>]
               /\ Slice(f, HEADER_SIZE, HEADER_SIZE + b) = written
               /\ Slice(f, HEADER_SIZE + b, HEADER_SIZE + b + 4)
                      = U32ToLe(crc32c(Slice(f, 0, HEADER_SIZE + b)))
               /\ validate(h).tag = "Ok"
                      => header(f).tag = "Ok" /\ verify_crc32c(f).tag = "Ok"

\* the statement of C13 on the frames of one large write, followed through
\* the lengths: hdr is the header as finish_crc32c leaves it in the buffer
\* and hres what header() returns on it
FinishPatchesLarge ==
    stage = "large"
        => /\ last.r.tag = "Ok"
           /\ last.r.val = HEADER_SIZE + sent.msg.body + 4
           /\ hdr = [sent.msg.header EXCEPT !.len = UsizeAsU32(sent.msg.body)]
           /\ validate(sent.msg.header).tag = "Ok" => hres.tag = "Ok"

\* C13: after begin(h) and successful writes of b body bytes, a successful
\* finish_crc32c returns 16 + b + 4, the header in the buffer carries h with
\* its length replaced by b, the body is followed by the little-endian
\* CRC32C of header and body, and for a valid h the decoder accepts the
\* frame in header() and verify_crc32c().
C13_FinishPatchesLength == FinishPatchesBytes /\ FinishPatchesLarge

\* the length field of the header the encoder last began
HeaderLenField == U32AsUsize(U32FromLe(Slice(enc.buf, enc.header_start + 10, enc.header_start + 14)))

\* the returned size n is 16 + len + 4, for a len that is a usize word, and
\* lies between the frame bounds
SizeInvariant(n, len) ==
    /\ Usize(n) = usize_add(len, Usize(HEADER_SIZE + 4)).val
    /\ MIN_FRAME_SIZE <= n
    /\ n <= MAX_FRAME_SIZE

\* finish_crc32c has just returned Ok on the encoder under use
Finished == stage = "encoder" /\ last.op = "finish_crc32c" /\ last.r.tag = "Ok"

\* C14: every finish_crc32c that returns Ok(n) has n = 16 + len + 4 for the
\* len it wrote into the header and MIN_FRAME_SIZE <= n <= MAX_FRAME_SIZE,
\* and the header it completed from a valid header passes validation.
C14_FrameSizeInvariant ==
    /\ Finished => SizeInvariant(last.r.val, HeaderLenField)
    /\ stage = "large"
         => /\ SizeInvariant(last.r.val, U32AsUsize(hdr.len))
            /\ validate(sent.msg.header).tag = "Ok" => hres.tag = "Ok"

\* the bytes an optional field takes on the wire
FieldSize(f) ==
    IF f.some THEN MinimalLength(UsizeAsU32(Len(f.bytes))) + Len(f.bytes) ELSE 0

\* the size of the frame of a message: header, fixed fields, the bitmap and
\* the fields supplied, trailer
RequiredSize ==
    IF sent.kind = "trade"
    THEN HEADER_SIZE + 8 + 8 + 4
         + (IF sent.msg.symbol.some \/ sent.msg.note.some THEN 2 ELSE 0)
         + FieldSize(sent.msg.symbol) + FieldSize(sent.msg.note) + 4
    ELSE HEADER_SIZE + 8 + 8 + 8 + 1
         + (IF sent.msg.symbol.some THEN 2 ELSE 0)
         + FieldSize(sent.msg.symbol) + 4

\* C15: trade::encode and quote::encode return Ok(n) exactly when the buffer
\* has at least the n bytes the frame of the inputs takes, and ShortBuffer,
\* never a panic, for every shorter buffer.
C15_ShortBuffer ==
    (sent.kind \in {"trade", "quote"} /\ last.op = "encode")
        => /\ sent.room >= RequiredSize
                => last.r.tag = "Ok" /\ last.r.val = RequiredSize
           /\ sent.room < RequiredSize => last.r.tag = "ShortBuffer"

\* a trade with both fields met a buffer that holds its body but not the
\* trailer
C15_Witness ==
    /\ sent.kind = "trade"
    /\ last.op = "encode"
    /\ sent.msg.symbol.some /\ sent.msg.note.some
    /\ sent.room = RequiredSize - 4
    /\ last.r.tag = "ShortBuffer"

\* the bytes a cursor read needs, as a usize word
Needed ==
    CASE cres.op = "get_u8" -> Usize(1)
      [] cres.op \in {"get_u16", "get_bitmap"} -> Usize(2)
      [] cres.op \in {"get_u32", "get_i32"} -> Usize(4)
      [] cres.op \in {"get_u64", "get_i64"} -> Usize(8)
      [] cres.op \in {"get_bytes", "skip", "peek_bytes"} -> cres.arg

\* the bytes of the body from the position before the read
Ahead(n) == Slice(cur.buf, cres.before, cres.before + n)

\* the little-endian value of the bytes a read consumed
ValueRead ==
    CASE cres.op = "get_u8" -> Ahead(1)[1]
      [] cres.op \in {"get_u16", "get_bitmap"} -> U16FromLe(Ahead(2))
      [] cres.op \in {"get_u32", "get_i32"} -> U32FromLe(Ahead(4))
      [] cres.op \in {"get_u64", "get_i64"} -> U64FromLe(Ahead(8))
      [] cres.op \in {"get_bytes", "peek_bytes"} -> Ahead(UsizeInt(cres.arg))
      [] cres.op = "skip" -> <<>>

FixedReads ==
    {"get_u8", "get_u16", "get_u32", "get_u64", "get_i32", "get_i64",
     "get_bitmap", "get_bytes", "skip", "peek_bytes"}

\* the statement of C16 for the reads that take arguments up to a bound
CursorReadsUpTo(bound) ==
    /\ (cres.op \in FixedReads /\ UsizeLe(Needed, bound))
         => /\ cres.tag = "UnexpectedEof"
                 <=> UsizeLt(Usize(Len(cur.buf) - cres.before), Needed)
            /\ cres.tag = "Ok"
                 => /\ IF cres.op = "peek_bytes" THEN cur.pos = cres.before
                       ELSE LET end == usize_add(Usize(cres.before), Needed)
                            IN  ~end.overflow /\ Usize(cur.pos) = end.val
                    /\ cres.val = ValueRead
            /\ cres.op = "peek_bytes" => cur.pos = cres.before
    /\ (cres.op = "get_varbytes" /\ cres.tag = "Ok")
         => LET v == decode_u32(Ahead(Len(cur.buf) - cres.before))
            IN  /\ v.tag = "Ok"
                /\ cur.pos = cres.before + v.val.size + Len(cres.val)
                /\ U32AsUsize(v.val.value) = Usize(Len(cres.val))
                /\ cres.val = Slice(cur.buf, cres.before + v.val.size, cur.pos)

\* C16: each fixed-size read, get_bytes(n), skip(n) and peek_bytes(n)
\* returns UnexpectedEof exactly when fewer bytes remain than it needs; on
\* success the position advances by the bytes consumed and the value is the
\* little-endian value at the old position; peek_bytes keeps the position.
C16_CursorReads == CursorReadsUpTo(USIZE_MAX)

\* the buffer up to the end of the frame its header announces
FramePrefix ==
    LET n == total_size(header(buf).val)
    IN  IF UsizeLt(Usize(Len(buf)), n) THEN buf ELSE Slice(buf, 0, UsizeInt(n))

\* C17: body() succeeds only on a header that validates, with a cursor at
\* position 0 over the header.len bytes from offset 16, and fails
\* UnexpectedEof on a buffer shorter than 16 + len; frame_buffer() returns
\* the first 16 + len + 4 bytes and fails UnexpectedEof on a shorter buffer;
\* the bytes after the frame change neither result.
C17_BodyAndFrameSpan ==
    LET hr == header(buf)
        len == UsizeInt(U32AsUsize(hr.val.len))
    IN  /\ last.op = "body"
          => /\ last.r.tag = "Ok" => hr.tag = "Ok"
             /\ hr.tag = "Ok"
                  => /\ last.r.tag = IF Len(buf) < HEADER_SIZE + len
                                     THEN "UnexpectedEof" ELSE "Ok"
                     /\ last.r.tag = "Ok"
                          => /\ cur.pos = 0
                             /\ cur.buf = Slice(buf, HEADER_SIZE, HEADER_SIZE + len)
                             /\ cur = body(FramePrefix).val
                     /\ last.r.tag = body(FramePrefix).tag
        /\ last.op = "frame_buffer"
          => /\ last.r.tag = "Ok" => hr.tag = "Ok"
             /\ hr.tag = "Ok"
                  => /\ last.r.tag = IF Len(buf) < HEADER_SIZE + len + 4
                                     THEN "UnexpectedEof" ELSE "Ok"
                     /\ last.r.tag = "Ok"
                          => last.r.val = Slice(buf, 0, HEADER_SIZE + len + 4)
                     /\ last.r = frame_buffer(FramePrefix)

\* body() returned its cursor on a frame followed by other bytes
C17_Witness ==
    /\ last.op = "body"
    /\ last.r.tag = "Ok"
    /\ damage.kind = "extend"
    /\ Len(cur.buf) > 0
    /\ UsizeLt(total_size(header(buf).val), Usize(Len(buf)))

\* LEB128 of a length: seven bits a byte, low bits first, the high bit set
\* on every byte but the last
RECURSIVE Leb128(_)
Leb128(n) == IF n < 128 THEN <<n>> ELSE <<128 + (n % 128)>> \o Leb128(n \div 128)

\* an optional field on the wire: nothing, or its length and its bytes
FieldWire(f) == IF f.some THEN Leb128(Len(f.bytes)) \o f.bytes ELSE <<>>

PresenceBit(f, idx) == IF f.some THEN 2 ^ idx ELSE 0

\* the body of a trade and of a quote as the layout prescribes them
TradeLayout(m) ==
    U64ToLe(m.ts_ns) \o U64ToLe(m.price) \o U32ToLe(m.qty)
    \o (IF m.symbol.some \/ m.note.some
        THEN U16ToLe(PresenceBit(m.symbol, 0) + PresenceBit(m.note, 1))
             \o FieldWire(m.symbol) \o FieldWire(m.note)
        ELSE <<>>)

QuoteLayout(m) ==
    U64ToLe(m.ts_ns) \o U64ToLe(m.bid) \o U64ToLe(m.ask) \o <<m.level>>
    \o (IF m.symbol.some
        THEN U16ToLe(PresenceBit(m.symbol, 0)) \o FieldWire(m.symbol)
        ELSE <<>>)

\* the bytes between header and trailer of the frame in buf
BodyBytes == Slice(buf, HEADER_SIZE, Len(buf) - 4)

\* C18: the body of an encoded trade is ts_ns (u64 LE), price (i64 LE), qty
\* (u32 LE) and, only when an optional field is supplied, a u16 LE bitmap of
\* exactly the supplied fields (bit 0 symbol, bit 1 note) followed by the
\* supplied fields, each varint-length-prefixed, in ascending bit order; a
\* trade without optional fields is a frame of 40 bytes.  A quote is laid
\* out the same way from ts_ns, bid, ask, level (u8) and bit 0 symbol.
C18_WireLayout ==
    (damage.kind = "none" /\ stage \in {"wire", "decoded"})
        => /\ sent.kind = "trade"
                => /\ BodyBytes = TradeLayout(sent.msg)
                   /\ (~sent.msg.symbol.some /\ ~sent.msg.note.some) => Len(buf) = 40
           /\ sent.kind = "quote" => BodyBytes = QuoteLayout(sent.msg)

\* a trade with a note of 128 bytes and no symbol is on the wire
C18_Witness ==
    /\ stage = "wire"
    /\ sent.kind = "trade"
    /\ ~sent.msg.symbol.some
    /\ sent.msg.note.some
    /\ Len(sent.msg.note.bytes) = 128
    /\ Slice(BodyBytes, 20, 24) = <<2, 0, 128, 1>>

\* the two bitmaps answer is_set alike at every index but idx
SameElsewhere(a, b, idx) ==
    \A j \in FieldIndices \ {idx} :
        PresenceBitmap_is_set(a, j) = PresenceBitmap_is_set(b, j)

\* the number of indices a bitmap of the size has
IndexLimit(size) == IF size = "U8" THEN 8 ELSE 16

\* C19: set(idx) and clear(idx) return Overflow for idx >= 8 on the 8-bit
\* form and idx >= 16 on the 16-bit form and leave the bitmap as it was;
\* for an index in range set makes is_set(idx) true and clear makes it
\* false, and is_set answers as before at every other index.
C19_BitmapBounds ==
    (stage = "bitmap" /\ last.op \in {"set", "clear"})
        => LET before == sent.msg.before
               idx == sent.msg.idx
           IN  IF UsizeLe(Usize(IndexLimit(before.size)), idx)
               THEN last.r.tag = "Overflow" /\ presence = before
               ELSE /\ last.r.tag = "Ok"
                    /\ presence.size = before.size
                    /\ PresenceBitmap_is_set(presence, idx) = (last.op = "set")
                    /\ SameElsewhere(presence, before, idx)

\* set(8) was refused on an 8-bit bitmap after clear(7) took effect
C19_Witness ==
    /\ stage = "bitmap"
    /\ last.op = "set"
    /\ presence.size = "U8"
    /\ sent.msg.idx = Usize(8)
    /\ last.r.tag = "Overflow"
    /\ sent.msg.calls = 2
    /\ presence.bits = 127

\* one operation of the record of operations, applied to an encoder
ApplyOp(e, o) ==
    CASE o.op = "begin" -> begin(e, o.arg)
      [] o.op = "put_u8" -> put_u8(e, o.arg)
      [] o.op = "put_u16" -> put_u16(e, o.arg)
      [] o.op = "put_u32" -> put_u32(e, o.arg)
      [] o.op = "put_u64" -> put_u64(e, o.arg)
      [] o.op = "put_i32" -> put_i32(e, o.arg)
      [] o.op = "put_i64" -> put_i64(e, o.arg)
      [] o.op = "put_bitmap" -> put_bitmap(e, o.arg)
      [] o.op = "put_bytes" -> put_bytes(e, o.arg)
      [] o.op = "put_varbytes" -> put_varbytes(e, o.arg)
      [] o.op = "put_varint_u32" -> put_varint_u32(e, o.arg)
      [] o.op = "put_varint_u64" -> put_varint_u64(e, o.arg)
      [] o.op = "finish_crc32c" -> finish_crc32c(e)
      [] o.op = "reset" -> EncOk(reset(e), 0)

\* the operations ops[a..b] applied in turn to the encoder of r, r being
\* the result of the operation before them
RECURSIVE Replay(_, _, _, _)
Replay(r, ops, a, b) ==
    IF a > b THEN r
    ELSE LET next == ApplyOp(r.e, ops[a])
         IN  IF next.tag = ops[a].tag THEN Replay(next, ops, a + 1, b)
             ELSE [next EXCEPT !.tag = "Diverged"]

\* the index of the reset among the operations, 0 if there is none
ResetAt(ops) ==
    IF \E i \in 1..Len(ops) : ops[i].op = "reset"
    THEN CHOOSE i \in 1..Len(ops) : ops[i].op = "reset"
    ELSE 0

\* a newly constructed encoder given the operations that followed the reset
FreshRun ==
    Replay(EncOk(FrameEncoder_new(Zeros(sent.msg.room)), 0), Ops,
           ResetAt(Ops) + 1, Len(Ops))

\* C20: reset() puts pos, header_start and body_start back to 0, and the
\* operations that follow it return the same results, leave the same
\* positions and write the same bytes from offset 0 as they do on a newly
\* constructed encoder.
C20_ResetReuse ==
    (sent.kind = "ops" /\ ResetAt(Ops) > 0)
        => LET fresh == FreshRun
           IN  /\ ResetAt(Ops) = Len(Ops)
                    => enc.pos = 0 /\ enc.header_start = 0 /\ enc.body_start = 0
               /\ fresh.tag # "Diverged"
               /\ ResetAt(Ops) < Len(Ops)
                    => /\ last.r.tag = (IF fresh.tag = "Ok" THEN "Ok" ELSE fresh.tag)
                       /\ last.r.tag = "Ok" => last.r.val = fresh.val
               /\ enc.pos = fresh.e.pos
               /\ enc.header_start = fresh.e.header_start
               /\ enc.body_start = fresh.e.body_start
               /\ Slice(enc.buf, 0, enc.pos) = Slice(fresh.e.buf, 0, fresh.e.pos)

\* a frame was begun and written to, the encoder reset, and an empty frame
\* completed at the start of the buffer
C20_Witness ==
    /\ stage = "encoder"
    /\ Len(Ops) = 5
    /\ Ops[1].op = "begin" /\ Ops[1].tag = "Ok"
    /\ Ops[2].op = "put_varbytes" /\ Ops[2].tag = "Ok"
    /\ Ops[3].op = "reset"
    /\ FrameCompleted(Ops)
    /\ enc.header_start = 0
    /\ last.r.val = 20

\* a frame was begun before the last operation and no reset followed it
FrameBegunBefore(ops) ==
    \E i \in 1..(Len(ops) - 1) :
        /\ ops[i].op = "begin" /\ ops[i].tag = "Ok"
        /\ \A j \in (i + 1)..(Len(ops) - 1) : ops[j].op # "reset"

\* C21: a begin that follows a finished or unfinished frame without a reset
\* starts its frame at offset 0 of the buffer, as it does after reset.
C21_BeginDiscardsPosition ==
    (sent.kind = "ops" /\ last.op = "begin" /\ last.r.tag = "Ok"
     /\ FrameBegunBefore(Ops))
        => /\ enc.header_start = 0
           /\ enc.body_start = HEADER_SIZE
           /\ enc.pos = HEADER_SIZE

\* the encoder as it was before the last operation: the operations before
\* it applied to a newly constructed encoder
Before ==
    Replay(EncOk(FrameEncoder_new(Zeros(sent.msg.room)), 0), Ops, 1, Len(Ops) - 1).e

\* C22: begin returns ShortBuffer, and does not index outside the buffer,
\* whenever the buffer cannot hold 16 bytes at the write position; otherwise
\* it writes the 16 header bytes there and sets the body start right after.
C22_BeginShortBuffer ==
    (sent.kind = "ops" /\ last.op = "begin")
        => LET was == Before
               h == Ops[Len(Ops)].arg
           IN  IF was.pos + HEADER_SIZE > Len(was.buf)
               THEN last.r.tag = "ShortBuffer"
               ELSE /\ last.r.tag = "Ok"
                    /\ Slice(enc.buf, was.pos, was.pos + HEADER_SIZE) = HeaderBytes(h)
                    /\ enc.body_start = was.pos + HEADER_SIZE

\* the last operation is a write or a finish and no begin came before it
BeforeAnyBegin(ops) ==
    /\ ops[Len(ops)].op \notin {"begin", "reset"}
    /\ \A i \in 1..(Len(ops) - 1) : ops[i].op # "begin"

\* the last operation is a finish, a finish succeeded before it, and no
\* begin or reset lies between the two
SecondFinish(ops) ==
    /\ ops[Len(ops)].op = "finish_crc32c"
    /\ \E i \in 1..(Len(ops) - 1) :
          /\ ops[i].op = "finish_crc32c" /\ ops[i].tag = "Ok"
          /\ \A j \in (i + 1)..(Len(ops) - 1) : ops[j].op \notin {"begin", "reset"}

\* C23: a write or a finish_crc32c before any begin, and a second
\* finish_crc32c with no begin or reset since the first, return the
\* invariant error and leave the encoder as it was: they do not write,
\* succeed or panic.
C23_MisuseGuarded ==
    (sent.kind = "ops" /\ Len(Ops) > 0 /\ (BeforeAnyBegin(Ops) \/ SecondFinish(Ops)))
        => /\ last.r.tag = "DecodeInvariant"
           /\ enc = Before

\* the length field of the header in buf, read without validation
RawLen == U32AsUsize(RawHeader(buf).len)

\* C24: on a header that fails validation verify_crc32c returns the header
\* error when the raw length exceeds MAX_FRAME_SIZE - 20, whatever the
\* buffer length and the checksum, and UnexpectedEof when the raw length is
\* plausible and the buffer is shorter than 16 + len + 4; on fewer than 16
\* bytes it returns UnexpectedEof.
C24_ImplausibleLength ==
    last.op = "verify_crc32c"
        => /\ Len(buf) < HEADER_SIZE => last.r.tag = "UnexpectedEof"
           /\ (Len(buf) >= HEADER_SIZE /\ header(buf).tag # "Ok")
                => IF UsizeLt(Usize(MAX_FRAME_SIZE - 20), RawLen)
                   THEN last.r.tag = header(buf).tag
                   ELSE Len(buf) < HEADER_SIZE + UsizeInt(RawLen) + 4
                            => last.r.tag = "UnexpectedEof"

\* verify_crc32c returned InvalidMagic on a frame whose raw length is
\* implausible
C24_Witness ==
    /\ last.op = "verify_crc32c"
    /\ Len(buf) >= HEADER_SIZE
    /\ UsizeLt(Usize(MAX_FRAME_SIZE - 20), RawLen)
    /\ header(buf).tag = "InvalidMagic"
    /\ last.r.tag = "InvalidMagic"

\* C25: a write operation or finish_crc32c that returns ShortBuffer leaves
\* the write position and the bytes of the buffer as they were before it.
C25_EncoderAtomic ==
    (sent.kind = "ops" /\ last.op \notin {"new", "begin", "reset"}
     /\ last.r.tag = "ShortBuffer")
        => /\ enc.pos = Before.pos
           /\ enc.buf = Before.buf

\* C26: a cursor read that returns an error leaves the position where it
\* was before the read.
C26_CursorAtomic ==
    (cres.op # "none" /\ cres.op # "peek_bytes" /\ cres.tag \in ErrorKinds)
        => cur.pos = cres.before

\* C27: after any sequence of cursor operations on a cursor from body() the
\* position lies within the body, remaining() is the number of bytes after
\* it, is_at_end() holds exactly when none remain, and no operation has
\* moved the position backwards.
C27_PositionInvariant ==
    (last.op = "body" /\ last.r.tag = "Ok")
        => /\ 0 <= cur.pos
           /\ cur.pos <= Len(cur.buf)
           /\ remaining(cur) = Len(cur.buf) - cur.pos
           /\ is_at_end(cur) <=> remaining(cur) = 0
           /\ cres.op # "none" => cur.pos >= cres.before

\* the number the first n bytes of b denote in LEB128, the sum of
\* (byte & 0x7F) << 7*i, as a word of seven limbs
RECURSIVE Denoted(_, _)
Denoted(b, n) ==
    IF n = 0 THEN [i \in 1..7 |-> 0]
    ELSE LimbsOr(Denoted(b, n - 1), LimbsShl(b[n] % 128, 7 * (n - 1), 7))

\* a word of 2 or 4 limbs as a word of seven limbs
Widened(w) == [i \in 1..7 |-> IF i <= 7 - Len(w) THEN 0 ELSE w[i - (7 - Len(w))]]

\* the number of bytes up to the first one without a continuation bit, 0 if
\* every byte has it
Terminated(b) ==
    LET ends == {i \in 1..Len(b) : b[i] < 128}
    IN  IF ends = {} THEN 0 ELSE CHOOSE i \in ends : \A j \in ends : i <= j

\* the number does not fit in the low limbs of a word of that many limbs
Exceeds(wide, limbs) == \E i \in 1..(7 - limbs) : wide[i] # 0

\* C28: when decode_u32 (decode_u64) returns Ok((v, n)) the number the first
\* n bytes denote is v, and an input that denotes a number of more than 32
\* (64) bits is rejected with Overflow.
C28_ValueExact ==
    (last.op \in {"decode_u32", "decode_u64"})
        => LET limbs == IF last.op = "decode_u32" THEN 2 ELSE 4
           IN  /\ last.r.tag = "Ok"
                    => Denoted(buf, last.r.val.size) = Widened(last.r.val.value)
               /\ (Terminated(buf) > 0 /\ Exceeds(Denoted(buf, Terminated(buf)), limbs))
                    => last.r.tag = "Overflow"

\* the frame trade::encode (quote::encode) makes of a decoded message
Reencoded ==
    LET m == last.r.val
        r == IF last.op = "trade_decode"
             THEN trade_encode(Zeros(BufLen), m.header.seq, m.ts_ns, m.price, m.qty,
                               m.symbol, m.note)
             ELSE quote_encode(Zeros(BufLen), m.header.seq, m.ts_ns, m.bid, m.ask,
                               m.level, m.symbol)
    IN  IF r.tag = "Ok" THEN Slice(r.e.buf, 0, r.val) ELSE <<>>

\* C29: whenever trade::decode (quote::decode) accepts a buffer, encoding
\* the sequence number and the fields it returned reproduces the frame byte
\* for byte.
C29_Canonical ==
    (last.op \in {"trade_decode", "quote_decode"} /\ last.r.tag = "Ok")
        => Reencoded = buf

\* the reads that take a byte count
CountedReads == {"skip", "get_bytes", "peek_bytes"}

\* the length prefix get_varbytes found at the old position
PrefixRead == decode_u32(Ahead(Len(cur.buf) - cres.before))

\* C30: skip(n), get_bytes(n) and peek_bytes(n) return UnexpectedEof for
\* every n greater than remaining(), usize::MAX included, and get_varbytes
\* returns UnexpectedEof for every length prefix greater than the bytes
\* remaining after it; none of them panics or moves the position backwards.
C30_BoundsChecks ==
    /\ (cres.op \in CountedReads
        /\ UsizeLt(Usize(Len(cur.buf) - cres.before), cres.arg))
         => cres.tag = "UnexpectedEof"
    /\ (cres.op = "get_varbytes" /\ PrefixRead.tag = "Ok"
        /\ UsizeLt(Usize(Len(cur.buf) - cres.before - PrefixRead.val.size),
                   U32AsUsize(PrefixRead.val.value)))
         => cres.tag = "UnexpectedEof"
    /\ (cres.op \in CountedReads \cup {"get_varbytes"})
         => /\ cres.tag # "Panic"
            /\ cur.pos >= cres.before
====
